---- MODULE Spec2Model ----
(***************************************************************************)
(* FlexToolsMCP: the path resolver (server.py find_path_bfs, the builder's *)
(* find_path and the precomputed path cache), name normalization, and the  *)
(* pattern learning store (PatternTracker).                                *)
(*                                                                         *)
(* Python strings that the code inspects character by character (entity    *)
(* and property names) are sequences of one-character strings.             *)
(***************************************************************************)
EXTENDS Integers, Sequences, FiniteSets, TLC

\* ------------------------------------------------------------------------
\* Bounds of the model
\* ------------------------------------------------------------------------
\* total number of edges of an enumerated graph
MaxEdges == 3
\* number of record calls of one server
MaxRecords == 5
\* number of record calls of the servers that share a file
MaxSharedRecords == 2
\* number of record calls of the server that is restarted
MaxPersistRecords == 2

\* ------------------------------------------------------------------------
\* Strings
\* ------------------------------------------------------------------------
\* s[from..] of a Python string
DropFirst(s, n) == SubSeq(s, n + 1, Len(s))

\* str.startswith
StartsWith(s, pre) ==
    /\ Len(pre) <= Len(s)
    /\ SubSeq(s, 1, Len(pre)) = pre

\* str.endswith
EndsWith(s, suf) ==
    /\ Len(suf) <= Len(s)
    /\ SubSeq(s, Len(s) - Len(suf) + 1, Len(s)) = suf

\* str.replace(pat, ""): every non-overlapping occurrence, left to right
RECURSIVE RemoveAll(_, _)
RemoveAll(s, pat) ==
    IF s = <<>> THEN <<>>
    ELSE IF StartsWith(s, pat) THEN RemoveAll(DropFirst(s, Len(pat)), pat)
    ELSE <<Head(s)>> \o RemoveAll(Tail(s), pat)

\* str.replace(c, "", 1): the first occurrence of the character only
RECURSIVE RemoveFirst(_, _)
RemoveFirst(s, c) ==
    IF s = <<>> THEN <<>>
    ELSE IF Head(s) = c THEN Tail(s)
    ELSE <<Head(s)>> \o RemoveFirst(Tail(s), c)

\* str.lower of one character
LowerChar(c) ==
    CASE c = "A" -> "a"
      [] c = "B" -> "b"
      [] c = "C" -> "c"
      [] c = "D" -> "d"
      [] c = "E" -> "e"
      [] c = "F" -> "f"
      [] c = "G" -> "g"
      [] c = "H" -> "h"
      [] c = "I" -> "i"
      [] c = "J" -> "j"
      [] c = "K" -> "k"
      [] c = "L" -> "l"
      [] c = "M" -> "m"
      [] c = "N" -> "n"
      [] c = "O" -> "o"
      [] c = "P" -> "p"
      [] c = "Q" -> "q"
      [] c = "R" -> "r"
      [] c = "S" -> "s"
      [] c = "T" -> "t"
      [] c = "U" -> "u"
      [] c = "V" -> "v"
      [] c = "W" -> "w"
      [] c = "X" -> "x"
      [] c = "Y" -> "y"
      [] c = "Z" -> "z"
      [] OTHER -> c

\* str.lower
Lower(s) == [i \in 1..Len(s) |-> LowerChar(s[i])]

\* sub in s
Contains(s, sub) ==
    \E i \in 0..(Len(s) - Len(sub)) : SubSeq(s, i + 1, i + Len(sub)) = sub

OperationsTok == <<"O", "p", "e", "r", "a", "t", "i", "o", "n", "s">>

\* ------------------------------------------------------------------------
\* Entities, properties, graphs
\* ------------------------------------------------------------------------
\* two interfaces (the second has a base name that itself starts with "I")
\* and one class
IA == <<"I", "A">>
IIn == <<"I", "I", "n">>
K == <<"K">>
Entities == {IA, IIn, K}

\* an owning sequence property and a referencing atomic property
SensesOS == <<"S", "O", "S">>
FormRA == <<"F", "R", "A">>

\* adjacency entries (target, via, type) as build_navigation_graph emits them
EdgeChoices ==
    {<<t, SensesOS, "owns">> : t \in Entities} \cup
    {<<t, FormRA, "references">> : t \in Entities}

\* the ways to give the three entities a, b and c edges: a + b + c <= n
EdgeCounts(n) ==
    {t \in (0..n) \X (0..n) \X (0..n) : t[1] + t[2] + t[3] <= n}

\* every adjacency map over Entities with at most n edges in total
GraphsUpTo(n) ==
    UNION {{(IA :> x) @@ (IIn :> y) @@ (K :> z) :
                x \in [1..t[1] -> EdgeChoices],
                y \in [1..t[2] -> EdgeChoices],
                z \in [1..t[3] -> EdgeChoices]} : t \in EdgeCounts(n)}

\* graph.get(current, [])
GraphGet(graph, current) ==
    IF current \in DOMAIN graph THEN graph[current] ELSE <<>>

Step(current, edge) ==
    [from |-> current, to |-> edge[1], via |-> edge[2], type |-> edge[3]]

\* Python's None / a list of steps; searched counts the queue entries taken
NoneResult(n) == [isNone |-> TRUE, steps |-> <<>>, searched |-> n]
ListResult(steps, n) == [isNone |-> FALSE, steps |-> steps, searched |-> n]

\* ------------------------------------------------------------------------
\* server.py find_path_bfs
\* ------------------------------------------------------------------------
DepthPrunedEarly(path, max_depth) == Len(path) + 1 >= max_depth

DepthPrunedLate(path, max_depth) == Len(path) > max_depth

\* if len(path) >= max_depth: continue
DepthPruned(path, max_depth) == Len(path) >= max_depth

\* a scan that reads the edge list from its end
RECURSIVE BfsScanBackwards(_, _, _, _, _, _, _)
BfsScanBackwards(edges, i, current, path, end, queue, visited) ==
    IF i > Len(edges)
    THEN [hit |-> FALSE, path |-> <<>>, queue |-> queue, visited |-> visited]
    ELSE LET edge == edges[Len(edges) + 1 - i]
             target == edge[1]
             ext == Append(path, Step(current, edge))
         IN  IF target = end
             THEN [hit |-> TRUE, path |-> ext, queue |-> queue, visited |-> visited]
             ELSE IF target \notin visited
             THEN BfsScanBackwards(edges, i + 1, current, path, end,
                          Append(queue, <<target, ext>>), visited \cup {target})
             ELSE BfsScanBackwards(edges, i + 1, current, path, end, queue, visited)

\* a scan that does not remember the entities it has enqueued
RECURSIVE BfsScanForgetful(_, _, _, _, _, _, _)
BfsScanForgetful(edges, i, current, path, end, queue, visited) ==
    IF i > Len(edges)
    THEN [hit |-> FALSE, path |-> <<>>, queue |-> queue, visited |-> visited]
    ELSE LET edge == edges[i]
             target == edge[1]
             ext == Append(path, Step(current, edge))
         IN  IF target = end
             THEN [hit |-> TRUE, path |-> ext, queue |-> queue, visited |-> visited]
             ELSE IF target \notin visited
             THEN BfsScanForgetful(edges, i + 1, current, path, end,
                          Append(queue, <<target, ext>>), visited)
             ELSE BfsScanForgetful(edges, i + 1, current, path, end, queue, visited)

\* a scan that does not recognise the end among the edges of the start
RECURSIVE BfsScanDeepOnly(_, _, _, _, _, _, _)
BfsScanDeepOnly(edges, i, current, path, end, queue, visited) ==
    IF i > Len(edges)
    THEN [hit |-> FALSE, path |-> <<>>, queue |-> queue, visited |-> visited]
    ELSE LET edge == edges[i]
             target == edge[1]
             ext == Append(path, Step(current, edge))
         IN  IF target = end /\ path # <<>>
             THEN [hit |-> TRUE, path |-> ext, queue |-> queue, visited |-> visited]
             ELSE IF target \notin visited \/ target = end
             THEN BfsScanDeepOnly(edges, i + 1, current, path, end,
                          Append(queue, <<target, ext>>), visited \cup {target})
             ELSE BfsScanDeepOnly(edges, i + 1, current, path, end, queue, visited)

\* the for loop over graph.get(current, []), from edge i on
RECURSIVE BfsScan(_, _, _, _, _, _, _)
BfsScan(edges, i, current, path, end, queue, visited) ==
    IF i > Len(edges)
    THEN [hit |-> FALSE, path |-> <<>>, queue |-> queue, visited |-> visited]
    ELSE LET edge == edges[i]
             target == edge[1]
             ext == Append(path, Step(current, edge))
         IN  IF target = end
             THEN [hit |-> TRUE, path |-> ext, queue |-> queue, visited |-> visited]
             ELSE IF target \notin visited
             THEN BfsScan(edges, i + 1, current, path, end,
                          Append(queue, <<target, ext>>), visited \cup {target})
             ELSE BfsScan(edges, i + 1, current, path, end, queue, visited)

\* the while loop over the queue
RECURSIVE BfsLoop(_, _, _, _, _, _)
BfsLoop(graph, queue, visited, end, max_depth, n) ==
    IF queue = <<>> THEN NoneResult(n)
    ELSE LET current == Head(queue)[1]
             path == Head(queue)[2]
         IN  IF DepthPruned(path, max_depth)
             THEN BfsLoop(graph, Tail(queue), visited, end, max_depth, n + 1)
             ELSE LET r == BfsScan(GraphGet(graph, current), 1, current, path, end,
                                   Tail(queue), visited)
                  IN  IF r.hit THEN ListResult(r.path, n + 1)
                      ELSE BfsLoop(graph, r.queue, r.visited, end, max_depth, n + 1)

find_path_bfs_nocheck(graph, start, end, max_depth) ==
    BfsLoop(graph, << <<start, <<>> >> >>, {start}, end, max_depth, 0)

find_path_bfs(graph, start, end, max_depth) ==
    IF start = end THEN ListResult(<<>>, 0)
    ELSE BfsLoop(graph, << <<start, <<>> >> >>, {start}, end, max_depth, 0)

\* ------------------------------------------------------------------------
\* build_navigation_graph.py find_path
\* ------------------------------------------------------------------------
\* the nested normalize(name)
normalize(name) ==
    IF ~StartsWith(name, <<"I">>) THEN <<"I">> \o name ELSE name

RECURSIVE FpScan(_, _, _, _, _, _, _)
FpScan(edges, i, current, path, end, queue, visited) ==
    IF i > Len(edges)
    THEN [hit |-> FALSE, path |-> <<>>, queue |-> queue, visited |-> visited]
    ELSE LET target == edges[i][1]
             ext == Append(path, [from |-> current, to |-> target,
                                  via |-> edges[i][2], type |-> edges[i][3]])
         IN  IF target = end
             THEN [hit |-> TRUE, path |-> ext, queue |-> queue, visited |-> visited]
             ELSE IF target \notin visited
             THEN FpScan(edges, i + 1, current, path, end,
                         Append(queue, <<target, ext>>), visited \cup {target})
             ELSE FpScan(edges, i + 1, current, path, end, queue, visited)

RECURSIVE FpLoop(_, _, _, _, _, _)
FpLoop(graph, queue, visited, end, max_depth, n) ==
    IF queue = <<>> THEN NoneResult(n)
    ELSE LET current == Head(queue)[1]
             path == Head(queue)[2]
         IN  IF Len(path) >= max_depth
             THEN FpLoop(graph, Tail(queue), visited, end, max_depth, n + 1)
             ELSE LET r == FpScan(GraphGet(graph, current), 1, current, path, end,
                                  Tail(queue), visited)
                  IN  IF r.hit THEN ListResult(r.path, n + 1)
                      ELSE FpLoop(graph, r.queue, r.visited, end, max_depth, n + 1)

find_path(graph, start, end, max_depth) ==
    IF start = end THEN ListResult(<<>>, 0)
    ELSE FpLoop(graph, << <<normalize(start), <<>> >> >>, {normalize(start)},
                normalize(end), max_depth, 0)

\* ------------------------------------------------------------------------
\* Generated code patterns: a text is the sequence of its lines, a line its
\* indentation depth (units of four spaces) and the values that fill it
\* ------------------------------------------------------------------------
\* name.lower().replace("i", "", 1)
VarName(name) == RemoveFirst(Lower(name), "i")

\* prop.endswith("OS") or ... "OC" or ... "RC" or ... "RS"
IsCollectionProp(prop) ==
    \/ EndsWith(prop, <<"O", "S">>)
    \/ EndsWith(prop, <<"O", "C">>)
    \/ EndsWith(prop, <<"R", "C">>)
    \/ EndsWith(prop, <<"R", "S">>)

\* f"{indent}for {item_var} in {current_var}.{prop}:"
ForLine(indent, item_var, current_var, prop) ==
    [indent |-> indent, kw |-> "for", lhs |-> item_var, obj |-> current_var, prop |-> prop]

\* f"{indent}{new_var} = {current_var}.{prop}"
AssignLine(indent, new_var, current_var, prop) ==
    [indent |-> indent, kw |-> "=", lhs |-> new_var, obj |-> current_var, prop |-> prop]

\* f"{indent}# work with {current_var}"
WorkLine(indent, current_var) ==
    [indent |-> indent, kw |-> "#", lhs |-> <<>>, obj |-> current_var, prop |-> <<>>]

\* server.py generate_code_from_path: the loop over steps and the last line
RECURSIVE CodeFromPathLines(_, _, _, _)
CodeFromPathLines(steps, i, indent, current_var) ==
    IF i > Len(steps) THEN <<WorkLine(indent, current_var)>>
    ELSE LET prop == steps[i].via
             to_var == VarName(steps[i].to)
         IN  IF IsCollectionProp(prop)
             THEN <<ForLine(indent, to_var, current_var, prop)>>
                  \o CodeFromPathLines(steps, i + 1, indent + 1, to_var)
             ELSE <<AssignLine(indent, to_var, current_var, prop)>>
                  \o CodeFromPathLines(steps, i + 1, indent, to_var)

generate_code_from_path(steps) ==
    IF steps = <<>> THEN <<>>
    ELSE CodeFromPathLines(steps, 1, 0, VarName(steps[1].from))

\* build_navigation_graph.py generate_code_pattern
RECURSIVE CodePatternLines(_, _, _, _)
CodePatternLines(path, i, indent, current_var) ==
    IF i > Len(path) THEN <<WorkLine(indent, current_var)>>
    ELSE LET prop == path[i].via
         IN  IF IsCollectionProp(prop)
             THEN LET item_var == VarName(path[i].to)
                  IN  <<ForLine(indent, item_var, current_var, prop)>>
                      \o CodePatternLines(path, i + 1, indent + 1, item_var)
             ELSE <<AssignLine(indent, VarName(path[i].to), current_var, prop)>>
                  \o CodePatternLines(path, i + 1, indent, VarName(path[i].to))

RECURSIVE CodePatternLinesFlat(_, _, _, _)
CodePatternLinesFlat(path, i, indent, current_var) ==
    IF i > Len(path) THEN <<WorkLine(indent, current_var)>>
    ELSE LET prop == path[i].via
         IN  IF IsCollectionProp(prop)
             THEN <<ForLine(indent, VarName(path[i].to), current_var, prop)>>
                  \o CodePatternLinesFlat(path, i + 1, indent, VarName(path[i].to))
             ELSE <<AssignLine(indent, VarName(path[i].to), current_var, prop)>>
                  \o CodePatternLinesFlat(path, i + 1, indent, VarName(path[i].to))

generate_code_pattern_flat(path) ==
    IF path = <<>> THEN <<>>
    ELSE CodePatternLinesFlat(path, 1, 0, VarName(path[1].from))

generate_code_pattern(path) ==
    IF path = <<>> THEN <<>>
    ELSE CodePatternLines(path, 1, 0, VarName(path[1].from))

\* ------------------------------------------------------------------------
\* The precomputed path cache
\* ------------------------------------------------------------------------
\* def find_path_bfs(..., max_depth: int = 5)
DefaultMaxDepth == 5

\* f"{start} -> {end}"
PathKey(start, end) == start \o <<" ", "-", ">", " ">> \o end

\* the (start, end) pairs of precompute_common_paths
common_pairs == << <<IA, IIn>>, <<IIn, IA>> >>

\* precompute_common_paths: pairs whose find_path result is a non-empty list
precompute_common_paths(g) ==
    LET found == {i \in 1..Len(common_pairs) :
                    LET path == find_path(g, common_pairs[i][1], common_pairs[i][2],
                                          DefaultMaxDepth)
                    IN  ~path.isNone /\ path.steps # <<>>}
        pairOf(key) == CHOOSE i \in found :
                            PathKey(common_pairs[i][1], common_pairs[i][2]) = key
    IN  [key \in {PathKey(common_pairs[i][1], common_pairs[i][2]) : i \in found} |->
            LET path == find_path(g, common_pairs[pairOf(key)][1],
                                  common_pairs[pairOf(key)][2], DefaultMaxDepth).steps
            IN  [steps |-> path, code_pattern |-> generate_code_pattern(path)]]

\* build_navigation_graph: the document holds the graph and the cache
build_navigation_graph(g) ==
    [loaded |-> TRUE, graph |-> g, common_paths |-> precompute_common_paths(g)]

\* api_index.navigation_graph when navigation_graph.json was not found
NotLoaded == [loaded |-> FALSE, graph |-> <<>>, common_paths |-> <<>>]

\* a test that takes a document that was not found for one that is there
TruthyBlind(doc) == TRUE

\* `if api_index.liblcm:` and its like: None (document not found) is falsy
Truthy(doc) == doc.loaded

\* doc.get(...) on None raises AttributeError
AttributeOfNone(doc) == ~doc.loaded

\* ------------------------------------------------------------------------
\* server.py navigation query
\* ------------------------------------------------------------------------
\* normalize_object_name
normalize_object_name(name) ==
    LET stripped == RemoveAll(name, OperationsTok)
    IN  IF ~StartsWith(stripped, <<"I">>) THEN <<"I">> \o stripped ELSE stripped

NavResult(q, found, source, steps, code, message, ranBfs) ==
    [from |-> q.from_object, to |-> q.to_object,
     from_normalized |-> normalize_object_name(q.from_object),
     to_normalized |-> normalize_object_name(q.to_object),
     found |-> found, source |-> source, steps |-> steps, code |-> code,
     message |-> message, ranBfs |-> ranBfs]

\* a handler that searches the graph before it looks at the cache
handle_get_navigation_path_bfs_first(doc, q) ==
    LET from_normalized == normalize_object_name(q.from_object)
        to_normalized == normalize_object_name(q.to_object)
        path_key == PathKey(from_normalized, to_normalized)
        bfs == find_path_bfs(doc.graph, from_normalized, to_normalized, DefaultMaxDepth)
    IN  IF ~doc.loaded
        THEN NavResult(q, FALSE, "", <<>>, <<>>, "not loaded", FALSE)
        ELSE IF ~bfs.isNone /\ bfs.steps # <<>>
        THEN NavResult(q, TRUE, "computed", bfs.steps,
                       generate_code_from_path(bfs.steps), "", TRUE)
        ELSE IF path_key \in DOMAIN doc.common_paths
        THEN NavResult(q, TRUE, "precomputed", doc.common_paths[path_key].steps,
                       doc.common_paths[path_key].code_pattern, "", TRUE)
        ELSE NavResult(q, FALSE, "", <<>>, <<>>, "no path", TRUE)

\* handle_get_navigation_path: the JSON result (without its description
\* and hint texts); ranBfs tells whether find_path_bfs was called
handle_get_navigation_path(doc, q) ==
    LET from_normalized == normalize_object_name(q.from_object)
        to_normalized == normalize_object_name(q.to_object)
        path_key == PathKey(from_normalized, to_normalized)
        bfs == find_path_bfs(doc.graph, from_normalized, to_normalized, DefaultMaxDepth)
    IN  IF ~Truthy(doc)
        THEN NavResult(q, FALSE, "", <<>>, <<>>, "not loaded", FALSE)
        ELSE IF path_key \in DOMAIN doc.common_paths
        THEN NavResult(q, TRUE, "precomputed", doc.common_paths[path_key].steps,
                       doc.common_paths[path_key].code_pattern, "", FALSE)
        ELSE IF ~bfs.isNone /\ bfs.steps # <<>>
        THEN NavResult(q, TRUE, "computed", bfs.steps,
                       generate_code_from_path(bfs.steps), "", TRUE)
        ELSE NavResult(q, FALSE, "", <<>>, <<>>, "no path", TRUE)

\* ------------------------------------------------------------------------
\* Python dicts: the keys in insertion order and the value of each key
\* ------------------------------------------------------------------------
EmptyDict == [keys |-> <<>>, at |-> <<>>]

\* k in d
Has(d, k) == k \in DOMAIN d.at

\* d[k] = v
Put(d, k, v) ==
    [keys |-> IF Has(d, k) THEN d.keys ELSE Append(d.keys, k),
     at |-> [x \in DOMAIN d.at \cup {k} |-> IF x = k THEN v ELSE d.at[x]]]

\* s[:n]
Prefix(s, n) == SubSeq(s, 1, IF Len(s) < n THEN Len(s) ELSE n)

\* every list that holds each element of S once
Orderings(S) ==
    {q \in [1..Cardinality(S) -> S] : \A i, j \in 1..Cardinality(S) : q[i] = q[j] => i = j}

\* ------------------------------------------------------------------------
\* PatternTracker.extract_api_calls
\* ------------------------------------------------------------------------
\* Executed code is the sequence of its member accesses, each in one of the
\* shapes the three regular expressions tell apart:
\*   wrapped  Obj(arg).Name      call     obj.Name(      attr     obj.Name
Wrapped(obj, name) == [shape |-> "wrapped", obj |-> obj, name |-> name]
Call(obj, name) == [shape |-> "call", obj |-> obj, name |-> name]
Attr(obj, name) == [shape |-> "attr", obj |-> obj, name |-> name]

\* \w+Operations
IsOperationsName(obj) == obj \in {"LexEntryOperations", "LexSenseOperations"}

\* [A-Z]\w*OS | [A-Z]\w*OC | [A-Z]\w*RS | [A-Z]\w*RC | Gloss\w* | Definition\w* | Headword | Form\w*
IsRelationAttr(name) == name \in {"SensesOS", "ExamplesOS", "Gloss", "GlossAll", "Headword"}

\* f"{a}.{b}"
Dotted(a, b) == <<a, b>>

\* the matches of one regular expression, in text order
RECURSIVE Matches(_, _, _)
Matches(code, i, rx) ==
    IF i > Len(code) THEN <<>>
    ELSE LET st == code[i]
             hit == CASE rx = "method" ->
                            st.shape = "wrapped" /\ IsOperationsName(st.obj)
                      [] rx = "project" ->
                            st.shape = "call" /\ st.obj = "project"
                      [] rx = "attr" ->
                            st.shape \in {"call", "attr"} /\ IsRelationAttr(st.name)
             key == CASE rx = "method" -> Dotted(st.obj, st.name)
                      [] rx = "project" -> Dotted("project", st.name)
                      [] rx = "attr" -> Dotted("*", st.name)
         IN  (IF hit THEN <<key>> ELSE <<>>) \o Matches(code, i + 1, rx)

\* the list patterns before it is deduplicated
PatternList(code) ==
    Matches(code, 1, "method") \o Matches(code, 1, "project") \o Matches(code, 1, "attr")

extract_api_calls_nodedup(code) == {PatternList(code)}

\* list(set(patterns)): the lists the call may return (a set has no order)
extract_api_calls(code) == Orderings({PatternList(code)[i] : i \in 1..Len(PatternList(code))})

\* ------------------------------------------------------------------------
\* PatternTracker._normalize_error
\* ------------------------------------------------------------------------
HexDigits == {"0", "1", "2", "3", "4", "5", "6", "7", "8", "9",
              "a", "b", "c", "d", "e", "f", "A", "B", "C", "D", "E", "F"}
Digits == {"0", "1", "2", "3", "4", "5", "6", "7", "8", "9"}

\* the number of leading characters of s that are in S
RECURSIVE LeadingIn(_, _)
LeadingIn(s, S) ==
    IF s # <<>> /\ Head(s) \in S THEN 1 + LeadingIn(Tail(s), S) ELSE 0

\* re.sub(pre + "[S]+", rep, s)
RECURSIVE SubRun(_, _, _, _)
SubRun(s, pre, S, rep) ==
    IF s = <<>> THEN <<>>
    ELSE IF StartsWith(s, pre) /\ LeadingIn(DropFirst(s, Len(pre)), S) >= 1
    THEN rep \o SubRun(DropFirst(s, Len(pre) + LeadingIn(DropFirst(s, Len(pre)), S)),
                       pre, S, rep)
    ELSE <<Head(s)>> \o SubRun(Tail(s), pre, S, rep)

\* the number of leading characters of s that are not a quote
RECURSIVE LeadingUnquoted(_)
LeadingUnquoted(s) ==
    IF s # <<>> /\ Head(s) # "'" THEN 1 + LeadingUnquoted(Tail(s)) ELSE 0

\* re.sub(r"'[^']{20,}'", "'...'", s)
RECURSIVE SubQuoted(_)
SubQuoted(s) ==
    IF s = <<>> THEN <<>>
    ELSE LET n == LeadingUnquoted(Tail(s))
         IN  IF Head(s) = "'" /\ n >= 20 /\ Len(s) >= n + 2
             THEN <<"'", ".", ".", ".", "'">> \o SubQuoted(DropFirst(s, n + 2))
             ELSE <<Head(s)>> \o SubQuoted(Tail(s))

\* a key that keeps the line number
_normalize_error_keep_line(error_msg) ==
    LET hex == SubRun(error_msg, <<"0", "x">>, HexDigits, <<"0", "x", ".", ".", ".">>)
        quoted == SubQuoted(hex)
    IN  Prefix(quoted, 100)

_normalize_error(error_msg) ==
    LET hex == SubRun(error_msg, <<"0", "x">>, HexDigits, <<"0", "x", ".", ".", ".">>)
        line == SubRun(hex, <<"l", "i", "n", "e", " ">>, Digits,
                       <<"l", "i", "n", "e", " ", "N">>)
        quoted == SubQuoted(line)
    IN  Prefix(quoted, 100)

\* ------------------------------------------------------------------------
\* PatternTracker.record_operation
\* ------------------------------------------------------------------------
\* {"api_patterns": {}, "error_patterns": {}}
EmptyStore == [api_patterns |-> EmptyDict, error_patterns |-> EmptyDict]

\* the entry of a key seen for the first time; last_used None is 0
NewPatternData ==
    [success_count |-> 0, failure_count |-> 0, last_used |-> 0, common_errors |-> EmptyDict]

\* the body of the loop over api_calls for one api_call
RecordApiCall(api, api_call, success, error_msg, error_type, now) ==
    LET base == IF Has(api, api_call) THEN api ELSE Put(api, api_call, NewPatternData)
        used == [base.at[api_call] EXCEPT !.last_used = now]
        failed == [used EXCEPT !.failure_count = @ + 1]
        errs == IF Has(failed.common_errors, error_type) THEN failed.common_errors
                ELSE Put(failed.common_errors, error_type, [count |-> 0, example |-> <<>>])
        counted == [errs.at[error_type] EXCEPT !.count = @ + 1]
        entry == IF error_msg # <<>>
                 THEN [counted EXCEPT !.example = Prefix(error_msg, 200)]
                 ELSE counted
        pattern_data ==
            IF success THEN [used EXCEPT !.success_count = @ + 1]
            ELSE IF error_type # ""
            THEN [failed EXCEPT !.common_errors = Put(errs, error_type, entry)]
            ELSE failed
    IN  Put(base, api_call, pattern_data)

\* for api_call in api_calls: ...
RECURSIVE RecordApiCalls(_, _, _, _, _, _, _)
RecordApiCalls(api, api_calls, i, success, error_msg, error_type, now) ==
    IF i > Len(api_calls) THEN api
    ELSE RecordApiCalls(RecordApiCall(api, api_calls[i], success, error_msg, error_type, now),
                        api_calls, i + 1, success, error_msg, error_type, now)

\* for api_call in api_calls: if api_call not in err_pattern["api_calls"]: append
RECURSIVE AppendMissing(_, _, _)
AppendMissing(list, api_calls, i) ==
    IF i > Len(api_calls) THEN list
    ELSE IF \E j \in 1..Len(list) : list[j] = api_calls[i]
    THEN AppendMissing(list, api_calls, i + 1)
    ELSE AppendMissing(Append(list, api_calls[i]), api_calls, i + 1)

\* a bucket that keeps the last three examples
RecordErrorKeepsLast(errors, code, api_calls, error_msg, now) ==
    LET error_key == _normalize_error(error_msg)
        base == IF Has(errors, error_key) THEN errors
                ELSE Put(errors, error_key,
                         [count |-> 0, examples |-> <<>>, api_calls |-> <<>>,
                          first_seen |-> now, potential_fix |-> "None"])
        old == base.at[error_key]
        example == [code |-> Prefix(code, 500), error |-> Prefix(error_msg, 500),
                    timestamp |-> now]
    IN  Put(base, error_key,
            [old EXCEPT !.count = @ + 1,
                        !.examples = IF Len(@) < 3 THEN Append(@, example)
                                     ELSE Append(Tail(@), example),
                        !.api_calls = AppendMissing(@, api_calls, 1)])

\* the error bucket part of record_operation
RecordError(errors, code, api_calls, error_msg, now) ==
    LET error_key == _normalize_error(error_msg)
        base == IF Has(errors, error_key) THEN errors
                ELSE Put(errors, error_key,
                         [count |-> 0, examples |-> <<>>, api_calls |-> <<>>,
                          first_seen |-> now, potential_fix |-> "None"])
        old == base.at[error_key]
        example == [code |-> Prefix(code, 500), error |-> Prefix(error_msg, 500),
                    timestamp |-> now]
    IN  Put(base, error_key,
            [old EXCEPT !.count = @ + 1,
                        !.examples = IF Len(@) < 3 THEN Append(@, example) ELSE @,
                        !.api_calls = AppendMissing(@, api_calls, 1)])

\* a record call that files every error message, whatever success says
record_operation_any_message(patterns, code, api_calls, success, error_msg, error_type, now) ==
    [api_patterns |->
        RecordApiCalls(patterns.api_patterns, api_calls, 1, success, error_msg,
                       error_type, now),
     error_patterns |->
        IF error_msg # <<>>
        THEN RecordError(patterns.error_patterns, code, api_calls, error_msg, now)
        ELSE patterns.error_patterns]

\* record_operation up to self.save(); api_calls is what extract_api_calls
\* returned and now the reading of the clock
record_operation(patterns, code, api_calls, success, error_msg, error_type, now) ==
    [api_patterns |->
        RecordApiCalls(patterns.api_patterns, api_calls, 1, success, error_msg,
                       error_type, now),
     error_patterns |->
        IF ~success /\ error_msg # <<>>
        THEN RecordError(patterns.error_patterns, code, api_calls, error_msg, now)
        ELSE patterns.error_patterns]

\* ------------------------------------------------------------------------
\* PatternTracker.get_recommendations
\* ------------------------------------------------------------------------
EnoughUsesLoose(total) == total >= 2

\* if total >= 3
EnoughUses(total) == total >= 3

\* success_count / total >= 0.8
RateAtLeastPreferred(success_count, total) == 10 * success_count >= 8 * total

\* success_count / total <= 0.3
RateAtMostAvoid(success_count, total) == 10 * success_count <= 3 * total

\* round(success_count / total * 100, 1), in tenths of a percent
RoundedRate(success_count, total) ==
    LET q == (1000 * success_count) \div total
        r == (1000 * success_count) % total
    IN  IF 2 * r > total THEN q + 1
        ELSE IF 2 * r = total /\ q % 2 = 1 THEN q + 1
        ELSE q

\* the three sort keys: -x["uses"], x["success_rate"], -x["count"]
SortKey(x, key) ==
    CASE key = "-uses" -> 0 - x.uses
      [] key = "success_rate" -> x.success_rate
      [] key = "-count" -> 0 - x.count

\* list.sort(key=...): x goes behind every element whose key is not larger
RECURSIVE InsertByKey(_, _, _)
InsertByKey(sorted, x, key) ==
    IF sorted = <<>> THEN <<x>>
    ELSE IF SortKey(Head(sorted), key) <= SortKey(x, key)
    THEN <<Head(sorted)>> \o InsertByKey(Tail(sorted), x, key)
    ELSE <<x>> \o sorted

RECURSIVE SortByKey(_, _)
SortByKey(list, key) ==
    IF list = <<>> THEN <<>>
    ELSE InsertByKey(SortByKey(SubSeq(list, 1, Len(list) - 1), key), list[Len(list)], key)

\* the loop over api_patterns: the entries of one list, in dict order
RECURSIVE RatedPatterns(_, _, _)
RatedPatterns(api, i, list) ==
    IF i > Len(api.keys) THEN <<>>
    ELSE LET api_call == api.keys[i]
             data == api.at[api_call]
             total == data.success_count + data.failure_count
             preferred == EnoughUses(total)
                          /\ RateAtLeastPreferred(data.success_count, total)
             avoid == EnoughUses(total) /\ ~preferred
                      /\ RateAtMostAvoid(data.success_count, total)
             item == IF list = "preferred" /\ preferred
                     THEN <<[pattern |-> api_call,
                             success_rate |-> RoundedRate(data.success_count, total),
                             uses |-> total, common_errors |-> <<>>]>>
                     ELSE IF list = "avoid" /\ avoid
                     THEN <<[pattern |-> api_call,
                             success_rate |-> RoundedRate(data.success_count, total),
                             uses |-> total,
                             common_errors |-> Prefix(data.common_errors.keys, 3)]>>
                     ELSE <<>>
         IN  item \o RatedPatterns(api, i + 1, list)

\* the loop over error_patterns
RECURSIVE RecurringErrors(_, _)
RecurringErrors(errors, i) ==
    IF i > Len(errors.keys) THEN <<>>
    ELSE LET data == errors.at[errors.keys[i]]
         IN  (IF data.count >= 2
              THEN <<[error_pattern |-> errors.keys[i], count |-> data.count,
                      affected_apis |-> Prefix(data.api_calls, 5),
                      potential_fix |-> data.potential_fix]>>
              ELSE <<>>) \o RecurringErrors(errors, i + 1)

get_recommendations(patterns) ==
    [preferred_patterns |->
        SortByKey(RatedPatterns(patterns.api_patterns, 1, "preferred"), "-uses"),
     patterns_to_avoid |->
        SortByKey(RatedPatterns(patterns.api_patterns, 1, "avoid"), "success_rate"),
     common_errors_needing_fix |->
        SortByKey(RecurringErrors(patterns.error_patterns, 1), "-count")]

\* ------------------------------------------------------------------------
\* handle_search_by_capability: the expanded terms
\* ------------------------------------------------------------------------
\* str.split(): the words between the spaces; w is the word being read
RECURSIVE SplitFrom(_, _)
SplitFrom(s, w) ==
    IF s = <<>> THEN (IF w = <<>> THEN <<>> ELSE <<w>>)
    ELSE IF Head(s) = " "
    THEN (IF w = <<>> THEN <<>> ELSE <<w>>) \o SplitFrom(Tail(s), <<>>)
    ELSE SplitFrom(Tail(s), Append(w, Head(s)))

Split(s) == SplitFrom(s, <<>>)

\* "{} {} {}".format(...)
RECURSIVE JoinSpaced(_)
JoinSpaced(parts) ==
    IF parts = <<>> THEN <<>>
    ELSE IF Len(parts) = 1 THEN parts[1]
    ELSE parts[1] \o <<" ">> \o JoinSpaced(Tail(parts))

WordAdd == <<"a", "d", "d">>
WordGet == <<"g", "e", "t">>
WordGloss == <<"g", "l", "o", "s", "s">>
WordSenses == <<"s", "e", "n", "s", "e", "s">>

\* synonyms: the entries of the words that queries of the model hold
synonyms(term) ==
    CASE term = WordAdd -> {<<"a", "d", "d">>, <<"s", "e", "t">>, <<"c", "r", "e", "a", "t", "e">>, <<"i", "n", "s", "e", "r", "t">>, <<"a", "p", "p", "e", "n", "d">>}
      [] term = WordGet -> {<<"g", "e", "t">>, <<"f", "e", "t", "c", "h">>, <<"r", "e", "t", "r", "i", "e", "v", "e">>, <<"f", "i", "n", "d">>, <<"r", "e", "a", "d">>}
      [] term = WordGloss -> {<<"g", "l", "o", "s", "s">>, <<"t", "r", "a", "n", "s", "l", "a", "t", "i", "o", "n">>, <<"m", "e", "a", "n", "i", "n", "g">>}
      [] OTHER -> {}

\* the (key, position) pairs of a dict whose values are lists
Range2(d) == UNION {{<<k, i>> : i \in 1..Len(d.at[k])} : k \in DOMAIN d.at}

\* suffix_index["by_pythonic_name"] of the LibLCM document, {} without it
ByPythonic(liblcm) ==
    IF Truthy(liblcm) THEN liblcm.suffix_index.by_pythonic_name ELSE EmptyDict

\* the lowered full names of the matches of the pythonic names equal to term
PythonicExpansions(by_pythonic, terms) ==
    {Lower(by_pythonic.at[n][i].full_name) :
        <<n, i>> \in {x \in Range2(by_pythonic) : Lower(x[1]) \in terms}}

\* expanded_terms: the words, their synonyms, the pythonic expansions
ExpandedTerms(query, liblcm) ==
    LET query_terms == Split(Lower(query))
        words == {query_terms[i] : i \in 1..Len(query_terms)}
        expanded == words \cup UNION {synonyms(t) : t \in words}
    IN  expanded \cup PythonicExpansions(ByPythonic(liblcm), expanded)

\* ------------------------------------------------------------------------
\* handle_search_by_capability: search_source, the two paths, the response
\* ------------------------------------------------------------------------
\* a document that was not found at load time (None)
NoDoc ==
    [loaded |-> FALSE, entities |-> <<>>,
     suffix_index |-> [by_pythonic_name |-> EmptyDict, by_full_name |-> EmptyDict]]

\* a score that takes a point for every term that is not in the text
MethodTermScorePenalized(method, term) ==
    LET text_to_search ==
            Lower(JoinSpaced(<<method.name, method.description, method.summary>>))
    IN  (IF Contains(text_to_search, term) THEN 1 ELSE 0 - 1)
        + (IF Contains(Lower(method.name), term) THEN 2 ELSE 0)

\* what one term adds to the score of a method
MethodTermScore(method, term) ==
    LET text_to_search ==
            Lower(JoinSpaced(<<method.name, method.description, method.summary>>))
    IN  (IF Contains(text_to_search, term) THEN 1 ELSE 0)
        + (IF Contains(Lower(method.name), term) THEN 2 ELSE 0)

\* what one term adds to the score of a property
PropertyTermScore(prop, term) ==
    LET text_to_search ==
            Lower(JoinSpaced(<<prop.name, prop.pythonic_name, prop.description,
                               prop.kind>>))
    IN  (IF Contains(text_to_search, term) THEN 1 ELSE 0)
        + (IF term = Lower(prop.name) \/ term = Lower(prop.pythonic_name)
           THEN 3 ELSE 0)

\* for term in expanded_terms: score += ...
RECURSIVE MethodScore(_, _, _)
MethodScore(method, terms, boost) ==
    IF terms = {} THEN boost
    ELSE LET term == CHOOSE t \in terms : TRUE
         IN  MethodTermScore(method, term) + MethodScore(method, terms \ {term}, boost)

RECURSIVE PropertyScore(_, _, _)
PropertyScore(prop, terms, boost) ==
    IF terms = {} THEN boost
    ELSE LET term == CHOOSE t \in terms : TRUE
         IN  PropertyTermScore(prop, term) + PropertyScore(prop, terms \ {term}, boost)

SearchItem(score, source, entity, name, type) ==
    [score |-> score, source |-> source, entity |-> entity, name |-> name,
     type |-> type]

ScoredAboveLoose(score, boost) == score >= boost

\* if score > boost
ScoredAbove(score, boost) == score > boost

\* the loop over entity.get("methods", []), from method i on
RECURSIVE MethodResults(_, _, _, _, _)
MethodResults(source_name, entity, i, boost, terms) ==
    IF i > Len(entity.methods) THEN <<>>
    ELSE LET method == entity.methods[i]
             score == MethodScore(method, terms, boost)
         IN  (IF ScoredAbove(score, boost)
              THEN <<SearchItem(score, source_name, entity.name, method.name, "method")>>
              ELSE <<>>) \o MethodResults(source_name, entity, i + 1, boost, terms)

\* the loop over entity.get("properties", []), from property i on
RECURSIVE PropertyResults(_, _, _, _, _)
PropertyResults(source_name, entity, i, boost, terms) ==
    IF i > Len(entity.properties) THEN <<>>
    ELSE LET prop == entity.properties[i]
             score == PropertyScore(prop, terms, boost)
         IN  (IF ScoredAbove(score, boost)
              THEN <<SearchItem(score, source_name, entity.name, prop.name, "property")>>
              ELSE <<>>) \o PropertyResults(source_name, entity, i + 1, boost, terms)

\* the loop over index_data["entities"], from entity i on
RECURSIVE EntityResults(_, _, _, _, _)
EntityResults(source_name, entities, i, boost, terms) ==
    IF i > Len(entities) THEN <<>>
    ELSE MethodResults(source_name, entities[i], 1, boost, terms)
         \o (IF source_name = "liblcm"
             THEN PropertyResults(source_name, entities[i], 1, boost, terms)
             ELSE <<>>)
         \o EntityResults(source_name, entities, i + 1, boost, terms)

search_source(source_name, index_data, boost, terms) ==
    IF ~index_data.loaded THEN <<>>
    ELSE EntityResults(source_name, index_data.entities, 1, boost, terms)

\* mode_config.get(api_mode, mode_config["all"])
mode_config(api_mode) ==
    CASE api_mode = "flexlibs2" -> [primary |-> <<"flexlibs2">>, fallback |-> <<>>]
      [] api_mode = "flexlibs_stable" ->
            [primary |-> <<"flexlibs_stable">>, fallback |-> <<"liblcm">>]
      [] api_mode = "liblcm" -> [primary |-> <<"liblcm">>, fallback |-> <<>>]
      [] OTHER -> [primary |-> <<"flexlibs2", "flexlibs_stable", "liblcm">>,
                   fallback |-> <<>>]

\* boost=5, boost=3, boost=0
SourceBoost(source) ==
    CASE source = "flexlibs2" -> 5
      [] source = "flexlibs_stable" -> 3
      [] source = "liblcm" -> 0

\* api_index.flexlibs2, api_index.flexlibs_stable, api_index.liblcm
SourceDoc(index, source) ==
    CASE source = "flexlibs2" -> index.flexlibs2
      [] source = "flexlibs_stable" -> index.flexlibs_stable
      [] source = "liblcm" -> index.liblcm

InSeq(list, x) == \E i \in 1..Len(list) : list[i] = x

\* for source in config["primary"]: ..., from source i on
RECURSIVE PrimaryResults(_, _, _, _, _)
PrimaryResults(index, primary, i, terms, acc) ==
    IF i > Len(primary) THEN acc
    ELSE IF Truthy(SourceDoc(index, primary[i]))
    THEN PrimaryResults(index, primary, i + 1, terms,
            [results |-> acc.results \o search_source(primary[i],
                            SourceDoc(index, primary[i]), SourceBoost(primary[i]), terms),
             sources_searched |-> Append(acc.sources_searched, primary[i])])
    ELSE PrimaryResults(index, primary, i + 1, terms, acc)

\* results.sort(key=lambda x: x["score"], reverse=True): x goes behind every
\* element whose score is not smaller
RECURSIVE InsertByScore(_, _)
InsertByScore(sorted, x) ==
    IF sorted = <<>> THEN <<x>>
    ELSE IF Head(sorted).score >= x.score
    THEN <<Head(sorted)>> \o InsertByScore(Tail(sorted), x)
    ELSE <<x>> \o sorted

RECURSIVE SortByScore(_)
SortByScore(list) ==
    IF list = <<>> THEN <<>>
    ELSE InsertByScore(SortByScore(SubSeq(list, 1, Len(list) - 1)), list[Len(list)])

\* the loop of SemanticSearch.search over the hits of the vector index
RECURSIVE SemanticTake(_, _, _, _)
SemanticTake(hits, i, max_results, source_filter) ==
    IF i > Len(hits) THEN <<>>
    ELSE IF source_filter # "all" /\ hits[i].source # source_filter
    THEN SemanticTake(hits, i + 1, max_results, source_filter)
    ELSE <<hits[i]>> \o (IF max_results <= 1 THEN <<>>
                         ELSE SemanticTake(hits, i + 1, max_results - 1, source_filter))

\* SemanticSearch.search: sem.hits is what the vector index ranks for the
\* query, of which the first min(max_results * 3, len(items)) are read
semantic_search(sem, max_results, source_filter) ==
    IF ~sem.enabled THEN <<>>
    ELSE SemanticTake(Prefix(sem.hits, max_results * 3), 1, max_results, source_filter)


\* the JSON result of handle_search_by_capability; lexical and consulted
\* tell whether the keyword search ran and whether it called search_source
\* on the fallback corpus
SearchResponse(args, search_method, sources_searched, fallback_used, results, semantic_available, lexical, consulted) ==
    [tool |-> "search_by_capability", raised |-> FALSE,
     query |-> args.query, api_mode |-> args.api_mode,
     search_method |-> search_method, sources_searched |-> sources_searched,
     fallback_used |-> fallback_used, semantic_available |-> semantic_available,
     results_count |-> Len(results), results |-> results,
     lexical |-> lexical, consulted |-> consulted]

\* a fallback that does not look at the number of results
FallbackConsultedAlways(index, config, primary, max_results) ==
    /\ InSeq(config.fallback, "liblcm")
    /\ index.liblcm.loaded
    /\ ~InSeq(primary.sources_searched, "liblcm")

\* whether search_source is called on the fallback corpus:
\* if len(results) < max_results and config["fallback"]: for source in ...
FallbackConsulted(index, config, primary, max_results) ==
    /\ Len(primary.results) < max_results
    /\ InSeq(config.fallback, "liblcm")
    /\ Truthy(index.liblcm)
    /\ ~InSeq(primary.sources_searched, "liblcm")

\* the keyword search: if not results: ... results = results[:max_results]
KeywordSearch(index, args) ==
    LET config == mode_config(args.api_mode)
        terms == ExpandedTerms(args.query, index.liblcm)
        primary == PrimaryResults(index, config.primary, 1, terms,
                                  [results |-> <<>>, sources_searched |-> <<>>])
        consulted == FallbackConsulted(index, config, primary, args.max_results)
        fallback_results ==
            IF consulted THEN search_source("liblcm", index.liblcm, 0, terms) ELSE <<>>
        fallback_used == fallback_results # <<>>
        raised ==
            \/ Truthy(index.liblcm) /\ AttributeOfNone(index.liblcm)
            \/ \E i \in 1..Len(primary.sources_searched) :
                    AttributeOfNone(SourceDoc(index, primary.sources_searched[i]))
    IN  [SearchResponse(args, "keyword",
            IF fallback_used THEN Append(primary.sources_searched, "liblcm (fallback)")
            ELSE primary.sources_searched,
            fallback_used,
            Prefix(SortByScore(primary.results \o fallback_results), args.max_results),
            index.semantic_search.enabled, TRUE, consulted)
         EXCEPT !.raised = raised]

\* a handler that runs the keyword search whatever the vector path gave
handle_search_by_capability_keyword_only(index, args) == KeywordSearch(index, args)

handle_search_by_capability(index, args) ==
    LET semantic_source ==
            IF args.api_mode \in {"flexlibs2", "liblcm"} THEN args.api_mode ELSE "all"
        semantic_results ==
            IF args.semantic /\ index.semantic_search.enabled
            THEN semantic_search(index.semantic_search, args.max_results, semantic_source)
            ELSE <<>>
    IN  IF semantic_results # <<>>
        THEN SearchResponse(args, "semantic", <<args.api_mode>>, FALSE,
                            semantic_results, index.semantic_search.enabled,
                            FALSE, FALSE)
        ELSE KeywordSearch(index, args)

\* ------------------------------------------------------------------------
\* handle_get_object_api
\* ------------------------------------------------------------------------
\* if len(result.get("liblcm_matches", [])) >= 10: break
MaxLiblcmMatches == 10

\* the names of index_data["entities"], in the order of the document
EntityNames(doc) == [i \in 1..Len(doc.entities) |-> doc.entities[i].name]

\* the entities whose key is object_type
ExactEntities(doc, object_type) ==
    SelectSeq(doc.entities, LAMBDA e : e.name = object_type)

\* the names n with object_type.lower() in n.lower()
PartialMatches(doc, object_type) ==
    SelectSeq(EntityNames(doc), LAMBDA n : Contains(Lower(n), Lower(object_type)))

\* flexlibs2 and liblcm hold the entity that paginate_entity pages, when the
\* exact name is a key of the document; liblcm holds fewer names than the
\* break of the partial match needs
handle_get_object_api(index, args) ==
    LET object_type == args.object_type
        in_flexlibs2 == args.include_flexlibs2 /\ Truthy(index.flexlibs2)
        in_liblcm == args.include_liblcm /\ Truthy(index.liblcm)
        raised ==
            \/ in_flexlibs2 /\ AttributeOfNone(index.flexlibs2)
            \/ in_liblcm /\ AttributeOfNone(index.liblcm)
        flexlibs2 ==
            IF in_flexlibs2 THEN ExactEntities(index.flexlibs2, object_type) ELSE <<>>
        flexlibs2_matches ==
            IF in_flexlibs2 /\ flexlibs2 = <<>>
            THEN PartialMatches(index.flexlibs2, object_type) ELSE <<>>
        liblcm ==
            IF in_liblcm THEN ExactEntities(index.liblcm, object_type) ELSE <<>>
        liblcm_matches ==
            IF in_liblcm /\ liblcm = <<>>
            THEN Prefix(PartialMatches(index.liblcm, object_type), MaxLiblcmMatches)
            ELSE <<>>
        found ==
            flexlibs2 # <<>> \/ flexlibs2_matches # <<>> \/ liblcm # <<>> \/ liblcm_matches # <<>>
    IN  [tool |-> "get_object_api", raised |-> raised, object_type |-> object_type,
         found |-> found, flexlibs2 |-> flexlibs2,
         flexlibs2_matches |-> flexlibs2_matches, liblcm |-> liblcm,
         liblcm_matches |-> liblcm_matches,
         message |-> IF found THEN "" ELSE "No API documentation found"]

\* ------------------------------------------------------------------------
\* resolve_pythonic_property, handle_resolve_property
\* ------------------------------------------------------------------------
\* context_entity when the argument is absent (None)
NoContext == <<>>

\* the result made of an entry of by_full_name
FullNameMatch(match, name) ==
    [entity |-> match.entity, full_name |-> name,
     pythonic_name |-> match.pythonic_name, kind |-> match.kind]

\* for key, match in by_full.items(): if key.endswith("." + name), from key i on
RECURSIVE FullNameMatches(_, _, _)
FullNameMatches(by_full, name, i) ==
    IF i > Len(by_full.keys) THEN <<>>
    ELSE (IF EndsWith(by_full.keys[i], <<".">> \o name)
          THEN <<FullNameMatch(by_full.at[by_full.keys[i]], name)>>
          ELSE <<>>) \o FullNameMatches(by_full, name, i + 1)

resolve_pythonic_property(index, name, context_entity) ==
    IF ~Truthy(index.liblcm) THEN <<>>
    ELSE
    LET by_pythonic == index.liblcm.suffix_index.by_pythonic_name
        by_full == index.liblcm.suffix_index.by_full_name
        key == context_entity \o <<".">> \o name
        pythonic ==
            IF ~Has(by_pythonic, name) THEN <<>>
            ELSE IF context_entity # NoContext
            THEN SelectSeq(by_pythonic.at[name], LAMBDA m : m.entity = context_entity)
            ELSE by_pythonic.at[name]
        full ==
            IF context_entity # NoContext
            THEN (IF Has(by_full, key)
                  THEN <<FullNameMatch(by_full.at[key], name)>> ELSE <<>>)
            ELSE FullNameMatches(by_full, name, 1)
    IN  IF pythonic # <<>> THEN pythonic ELSE full

\* sum(a != b for a, b in zip(x, y))
Mismatches(x, y) ==
    Cardinality({i \in 1..(IF Len(x) < Len(y) THEN Len(x) ELSE Len(y)) : x[i] # y[i]})

\* whether pythonic_name is suggested for property_name
Suggested(property_name, pythonic_name) ==
    LET a == Lower(property_name)
        b == Lower(pythonic_name)
        d == Len(property_name) - Len(pythonic_name)
    IN  \/ Contains(b, a)
        \/ Contains(a, b)
        \/ /\ d <= 2 /\ 0 - d <= 2
           /\ Mismatches(a, b) <= 2

\* the usage examples of matches[:3]: the full name and how it is read
RECURSIVE UsageExamples(_)
UsageExamples(matches) ==
    IF matches = <<>> THEN <<>>
    ELSE (IF Head(matches).kind \in {<<"O", "S">>, <<"O", "C">>, <<"R", "S">>, <<"R", "C">>}
          THEN <<[full_name |-> Head(matches).full_name, use |-> "iterate"]>>
          ELSE IF Head(matches).kind \in {<<"O", "A">>, <<"R", "A">>}
          THEN <<[full_name |-> Head(matches).full_name, use |-> "reference"]>>
          ELSE <<>>) \o UsageExamples(Tail(matches))

\* suggestions is list(set(...))[:10] of fewer than ten names: a set
handle_resolve_property(index, args) ==
    LET matches ==
            resolve_pythonic_property(index, args.property_name, args.context_entity)
        by_pythonic == ByPythonic(index.liblcm)
        raised == Truthy(index.liblcm) /\ AttributeOfNone(index.liblcm)
    IN  [tool |-> "resolve_property", raised |-> raised,
         property_name |-> args.property_name,
         context_entity |-> args.context_entity,
         found |-> matches # <<>>, matches |-> matches,
         suggestions |->
            IF matches # <<>> THEN {}
            ELSE {by_pythonic.keys[i] : i \in
                    {j \in 1..Len(by_pythonic.keys) :
                        Suggested(args.property_name, by_pythonic.keys[j])}},
         usage_examples |-> UsageExamples(Prefix(matches, 3))]

\* ------------------------------------------------------------------------
\* State
\* ------------------------------------------------------------------------
VARIABLES
    graph,      \* the adjacency map produced by the graph builder
    pathq,      \* the arguments of a path function call: fn, start, end, max_depth
    pathr,      \* what that call returned
    navdoc,     \* api_index.navigation_graph: the loaded document
    navq,       \* the arguments of a navigation query
    navr,       \* the result of the navigation query
    tracker,    \* pattern_tracker.patterns of each server process
    patfile,    \* patterns.json: whether it exists and what it holds
    pc,         \* where each server process is in record_operation
    clock,      \* datetime.now()
    recs,       \* the last result of get_recommendations
    observed,   \* per pattern key, the record calls seen with it: successes, failures
    api_index,  \* the loaded documents: three corpora and the vector index
    request,    \* the arguments of the tool call being handled
    response,   \* what the tool call returned
    exec        \* the executions of generated code and what became of them

pathVars == <<pathq, pathr>>
navVars == <<navdoc, navq, navr>>
patVars == <<tracker, patfile, pc, clock, recs, observed>>
reqVars == <<api_index, request, response, exec>>
vars == <<graph, pathq, pathr, navdoc, navq, navr,
          tracker, patfile, pc, clock, recs, observed,
          api_index, request, response, exec>>

Depths == {1, 2, DefaultMaxDepth}

\* names that carry the interface prefix, as every pair of common_pairs does
PrefixedEntities == {e \in Entities : StartsWith(e, <<"I">>)}

NoNavQuery == [from_object |-> <<>>, to_object |-> <<>>]

\* the result slot before the handler has returned
NavPending ==
    [from |-> <<>>, to |-> <<>>, from_normalized |-> <<>>, to_normalized |-> <<>>,
     found |-> FALSE, source |-> "", steps |-> <<>>, code |-> <<>>,
     message |-> "pending", ranBfs |-> FALSE]

\* ------------------------------------------------------------------------
\* The pattern learning store: inputs and the state at start
\* ------------------------------------------------------------------------
\* the server processes that share patterns.json
Procs == {1, 2}

CodeTwice ==
    <<Wrapped("LexEntryOperations", "Create"), Attr("entry", "SensesOS"),
      Wrapped("LexEntryOperations", "Create")>>
CodeProject ==
    <<Call("project", "Save"), Wrapped("LexEntryOperations", "Create"),
      Attr("entry", "Guid")>>
Codes == {CodeTwice, CodeProject}

\* "no attr at 0x1f line 3" and "no attr at 0x2A line 14"
MsgFirst == <<"n", "o", " ", "a", "t", "t", "r", " ", "a", "t", " ", "0", "x", "1", "f", " ", "l", "i", "n", "e", " ", "3">>
MsgSecond == <<"n", "o", " ", "a", "t", "t", "r", " ", "a", "t", " ", "0", "x", "2", "A", " ", "l", "i", "n", "e", " ", "1", "4">>

\* the arguments of record_operation
RecordInputs ==
    {[code |-> c, success |-> TRUE, error_msg |-> <<>>, error_type |-> ""] : c \in Codes}
    \cup {[code |-> c, success |-> FALSE, error_msg |-> MsgFirst,
           error_type |-> "AttributeError"] : c \in Codes}
    \cup {[code |-> c, success |-> FALSE, error_msg |-> MsgSecond, error_type |-> ""] :
           c \in Codes}

KeysOf(code) == {PatternList(code)[i] : i \in 1..Len(PatternList(code))}

AllKeys == UNION {KeysOf(c) : c \in Codes}

\* no result of get_recommendations for the current store
NoRecs ==
    [valid |-> FALSE, preferred_patterns |-> <<>>, patterns_to_avoid |-> <<>>,
     common_errors_needing_fix |-> <<>>]

\* a result of get_recommendations for the current store
Recs(r) ==
    [valid |-> TRUE, preferred_patterns |-> r.preferred_patterns,
     patterns_to_avoid |-> r.patterns_to_avoid,
     common_errors_needing_fix |-> r.common_errors_needing_fix]

\* the file after open(patterns_file, 'w') has raised: as it was
save_open_failed(file, patterns) == file

\* the file after json.dump has raised: truncated, a part of the text written
save_dump_failed(file, patterns) == [exists |-> TRUE, parses |-> FALSE, data |-> patterns]

\* PatternTracker.save, the write succeeding
save(patterns) == [exists |-> TRUE, parses |-> TRUE, data |-> patterns]

\* json.load(f): the value of the text, or the exception of a text that is
\* not JSON
json_load(file) ==
    IF file.parses THEN [raised |-> FALSE, value |-> file.data]
    ELSE [raised |-> TRUE, value |-> EmptyStore]

load_unguarded(file) == IF file.exists THEN file.data ELSE EmptyStore

\* PatternTracker.load: the store of the file, the empty store without a
\* file or when reading it raises
load(file) ==
    IF file.exists
    THEN IF json_load(file).raised THEN EmptyStore ELSE json_load(file).value
    ELSE EmptyStore

\* pattern_tracker = PatternTracker(): no patterns.json yet
PatInit ==
    /\ patfile = [exists |-> FALSE, parses |-> FALSE, data |-> EmptyStore]
    /\ tracker = [p \in Procs |-> load(patfile)]
    /\ pc = [p \in Procs |-> "idle"]
    /\ clock = 0
    /\ recs = NoRecs
    /\ observed = [k \in AllKeys |-> [s |-> 0, f |-> 0]]

PatIdle == PatInit

\* no document loaded, no tool call, no execution
NoIndex == [tag |-> "none"]
NoRequest == [tool |-> "none"]
NoResponse == [tool |-> "none"]
NoExec == [tool |-> "none"]

ReqIdle ==
    /\ api_index = NoIndex
    /\ request = NoRequest
    /\ response = NoResponse
    /\ exec = NoExec

PathIdle ==
    /\ pathq = [fn |-> "none", start |-> <<>>, end |-> <<>>, max_depth |-> 0]
    /\ pathr = [isNone |-> TRUE, steps |-> <<>>, searched |-> -1]

NavIdle ==
    /\ graph = [e \in Entities |-> <<>>]
    /\ navdoc = NotLoaded
    /\ navq = NoNavQuery
    /\ navr = NavPending

\* the record calls seen, after one more with these arguments
Observe(obs, in) ==
    [k \in AllKeys |->
        IF k \in KeysOf(in.code)
        THEN IF in.success THEN [obs[k] EXCEPT !.s = @ + 1]
             ELSE [obs[k] EXCEPT !.f = @ + 1]
        ELSE obs[k]]

\* ------------------------------------------------------------------------
\* One server: record calls and recommendations
\* ------------------------------------------------------------------------
RecordCalls == clock

\* record_operation, from extract_api_calls to self.save()
RecordOperation ==
    /\ RecordCalls < MaxRecords
    /\ \E in \in RecordInputs :
        \E api_calls \in extract_api_calls(in.code) :
            /\ tracker' = [tracker EXCEPT ![1] =
                    record_operation(@, in.code, api_calls, in.success, in.error_msg,
                                     in.error_type, clock + 1)]
            /\ observed' = Observe(observed, in)
    /\ patfile' = save(tracker'[1])
    /\ clock' = clock + 1
    /\ recs' = NoRecs
    /\ UNCHANGED <<pc, graph, pathVars, navVars, reqVars>>

\* get_recommendations on the store as it is
GetRecommendations ==
    /\ ~recs.valid
    /\ recs' = Recs(get_recommendations(tracker[1]))
    /\ UNCHANGED <<tracker, patfile, pc, clock, observed, graph, pathVars, navVars, reqVars>>

StoreInit == PatInit /\ PathIdle /\ NavIdle /\ ReqIdle

StoreNext == RecordOperation \/ GetRecommendations

StoreSpec == StoreInit /\ [][StoreNext]_vars

\* ------------------------------------------------------------------------
\* Two servers on one patterns.json
\* ------------------------------------------------------------------------
\* record_operation of process p up to self.save()
BeginRecord(p) ==
    /\ pc[p] = "idle"
    /\ RecordCalls < MaxSharedRecords
    /\ \E in \in RecordInputs :
        \E api_calls \in extract_api_calls(in.code) :
            /\ tracker' = [tracker EXCEPT ![p] =
                    record_operation(@, in.code, api_calls, in.success, in.error_msg,
                                     in.error_type, clock + 1)]
            /\ observed' = Observe(observed, in)
    /\ pc' = [pc EXCEPT ![p] = "save"]
    /\ clock' = clock + 1
    /\ recs' = NoRecs
    /\ UNCHANGED <<patfile, graph, pathVars, navVars, reqVars>>

\* self.save() of process p rewrites the whole file
Save(p) ==
    /\ pc[p] = "save"
    /\ patfile' = save(tracker[p])
    /\ pc' = [pc EXCEPT ![p] = "idle"]
    /\ UNCHANGED <<tracker, clock, recs, observed, graph, pathVars, navVars, reqVars>>

\* handle_get_operation_logs with include_patterns: reload, then recommend
ReloadForLogs(p) ==
    /\ pc[p] = "idle"
    /\ tracker[p] # load(patfile)
    /\ tracker' = [tracker EXCEPT ![p] = load(patfile)]
    /\ recs' = Recs(get_recommendations(load(patfile)))
    /\ UNCHANGED <<patfile, pc, clock, observed, graph, pathVars, navVars, reqVars>>

SharedNext == \E p \in Procs : BeginRecord(p) \/ Save(p) \/ ReloadForLogs(p)

SharedSpec == StoreInit /\ [][SharedNext]_vars

\* ------------------------------------------------------------------------
\* One server that is restarted, and writes that may fail
\* ------------------------------------------------------------------------
\* how self.save() ends: written, open() raised, json.dump raised
SaveOutcomes == {"written", "open_failed", "dump_failed"}

\* patterns.json after self.save() ended this way
Saved(file, patterns, outcome) ==
    CASE outcome = "written" -> save(patterns)
      [] outcome = "open_failed" -> save_open_failed(file, patterns)
      [] outcome = "dump_failed" -> save_dump_failed(file, patterns)

\* what the store went through: the last call on it, whether its load met a
\* file that does not parse, the record calls since that load, the last
\* arguments of record_operation
StoreLog(op, corrupt, since, last) ==
    [op |-> op, corrupt |-> corrupt, since |-> since, last |-> last]

PersistInit ==
    /\ PatInit /\ PathIdle /\ NavIdle
    /\ api_index = NoIndex
    /\ request = NoRequest
    /\ exec = NoExec
    /\ response = StoreLog("start", FALSE, 0,
                           [code |-> <<>>, success |-> TRUE, error_msg |-> <<>>,
                            error_type |-> ""])

\* record_operation, from extract_api_calls to the end of self.save()
RecordAndSave ==
    /\ RecordCalls < MaxPersistRecords
    /\ \E in \in RecordInputs :
        /\ \E api_calls \in extract_api_calls(in.code) :
            tracker' = [tracker EXCEPT ![1] =
                    record_operation(@, in.code, api_calls, in.success, in.error_msg,
                                     in.error_type, clock + 1)]
        /\ observed' = Observe(observed, in)
        /\ response' = StoreLog("record", response.corrupt, response.since + 1, in)
    /\ \E outcome \in SaveOutcomes : patfile' = Saved(patfile, tracker'[1], outcome)
    /\ clock' = clock + 1
    /\ recs' = NoRecs
    /\ UNCHANGED <<pc, graph, pathVars, navVars, api_index, request, exec>>

\* the server process ends and a new one starts: PatternTracker() loads
Restart ==
    /\ response.op # "load"
    /\ tracker' = [tracker EXCEPT ![1] = load(patfile)]
    /\ response' = StoreLog("load", patfile.exists /\ json_load(patfile).raised, 0,
                            response.last)
    /\ recs' = NoRecs
    /\ UNCHANGED <<patfile, pc, clock, observed, graph, pathVars, navVars,
                   api_index, request, exec>>

PersistNext == RecordAndSave \/ Restart \/ GetRecommendations

PersistSpec == PersistInit /\ [][PersistNext]_vars

\* ------------------------------------------------------------------------
\* Executions of generated code: handle_run_operation, handle_run_module
\* ------------------------------------------------------------------------
\* "AttributeError x", "Entry Not Found", "Timeout" and the two messages the
\* handler makes up for an output it cannot read
MsgAttributeError == <<"A", "t", "t", "r", "i", "b", "u", "t", "e", "E", "r", "r", "o", "r", " ", "x">>
MsgNotFound == <<"E", "n", "t", "r", "y", " ", "N", "o", "t", " ", "F", "o", "u", "n", "d">>
MsgTimeout == <<"T", "i", "m", "e", "o", "u", "t">>
MsgBadJson == <<"F", "a", "i", "l", "e", "d", " ", "t", "o", " ", "p", "a", "r", "s", "e", " ", "r", "e", "s", "u", "l", "t", " ", "J", "S", "O", "N">>
MsgNoMarker == <<"N", "o", " ", "r", "e", "s", "u", "l", "t", " ", "m", "a", "r", "k", "e", "r", " ", "f", "o", "u", "n", "d", " ", "i", "n", " ", "o", "u", "t", "p", "u", "t">>

\* the error_type that handle_run_operation reads off the message (None is "")
ErrorTypeOf(error_msg) ==
    IF Contains(error_msg, <<"A", "t", "t", "r", "i", "b", "u", "t", "e", "E", "r", "r", "o", "r">>) THEN "AttributeError"
    ELSE IF Contains(error_msg, <<"T", "y", "p", "e", "E", "r", "r", "o", "r">>) THEN "TypeError"
    ELSE IF Contains(error_msg, <<"K", "e", "y", "E", "r", "r", "o", "r">>) THEN "KeyError"
    ELSE IF Contains(error_msg, <<"h", "a", "s", " ", "n", "o", " ", "a", "t", "t", "r", "i", "b", "u", "t", "e">>) THEN "MissingAttribute"
    ELSE IF Contains(Lower(error_msg), <<"n", "o", "t", " ", "f", "o", "u", "n", "d">>) THEN "NotFound"
    ELSE ""

\* how writing the script and subprocess.run end: the script could not be
\* written; a result with success true; a result with success false and an
\* error text; output after the marker that is not JSON; output without the
\* marker; TimeoutExpired; another exception of subprocess.run
ExecOutcomes ==
    {[kind |-> k, error |-> <<>>] :
        k \in {"tempfile_failed", "ok", "bad_json", "no_marker", "timeout"}}
    \cup {[kind |-> "failed", error |-> e] :
            e \in {MsgFirst, MsgAttributeError, MsgNotFound}}
    \cup {[kind |-> "oserror", error |-> MsgFirst]}

ExecTools == {"run_operation", "run_module"}

\* a tool call that has not returned yet
ExecCalled(tool, code, outcome) ==
    [tool |-> tool, code |-> code, outcome |-> outcome, phase |-> "called",
     runs |-> 0, records |-> <<>>, success |-> FALSE]

\* the tool call has returned: the calls of subprocess.run it made, the
\* calls of record_operation it made, the success field of its result
ExecDone(e, runs, records, success) ==
    [e EXCEPT !.phase = "done", !.runs = runs, !.records = records,
              !.success = success]

\* the arguments of the one call of record_operation that
\* handle_run_operation makes for this outcome
RecordArgs(code, outcome) ==
    CASE outcome.kind = "ok" ->
            [code |-> code, success |-> TRUE, error_msg |-> <<>>, error_type |-> ""]
      [] outcome.kind = "failed" ->
            [code |-> code, success |-> FALSE, error_msg |-> outcome.error,
             error_type |-> ErrorTypeOf(outcome.error)]
      [] outcome.kind = "bad_json" ->
            [code |-> code, success |-> FALSE, error_msg |-> MsgBadJson,
             error_type |-> ErrorTypeOf(MsgBadJson)]
      [] outcome.kind = "no_marker" ->
            [code |-> code, success |-> FALSE, error_msg |-> MsgNoMarker,
             error_type |-> ErrorTypeOf(MsgNoMarker)]
      [] outcome.kind = "timeout" ->
            [code |-> code, success |-> FALSE, error_msg |-> MsgTimeout,
             error_type |-> "Timeout"]
      [] outcome.kind = "oserror" ->
            [code |-> code, success |-> FALSE, error_msg |-> outcome.error,
             error_type |-> "SubprocessError"]

\* the number of executions the model follows
MaxExecs == 2

ExecInit ==
    /\ PatInit /\ PathIdle /\ NavIdle
    /\ api_index = NoIndex
    /\ request = NoRequest
    /\ response = NoResponse
    /\ exec \in {ExecCalled(t, c, o) : t \in ExecTools, c \in Codes, o \in ExecOutcomes}

\* call_tool receives the next run_operation or run_module request
CallExec ==
    /\ exec.phase = "done"
    /\ clock + 1 < MaxExecs
    /\ \E t \in ExecTools, c \in Codes, o \in ExecOutcomes : exec' = ExecCalled(t, c, o)
    /\ clock' = clock + 1
    /\ UNCHANGED <<tracker, patfile, pc, recs, observed, graph, pathVars, navVars,
                   api_index, request, response>>

\* handle_run_operation, from the call to the return
HandleRunOperation ==
    /\ exec.phase = "called"
    /\ exec.tool = "run_operation"
    /\ IF exec.outcome.kind = "tempfile_failed"
       THEN /\ exec' = ExecDone(exec, 0, <<>>, FALSE)
            /\ UNCHANGED <<tracker, patfile, observed>>
       ELSE LET in == RecordArgs(exec.code, exec.outcome)
            IN  /\ \E api_calls \in extract_api_calls(in.code) :
                    tracker' = [tracker EXCEPT ![1] =
                        record_operation(@, in.code, api_calls, in.success,
                                         in.error_msg, in.error_type, clock + 1)]
                /\ \E outcome \in SaveOutcomes :
                    patfile' = Saved(patfile, tracker'[1], outcome)
                /\ observed' = Observe(observed, in)
                /\ exec' = ExecDone(exec, 1, <<in>>, exec.outcome.kind = "ok")
    /\ recs' = NoRecs
    /\ UNCHANGED <<pc, clock, graph, pathVars, navVars, api_index, request, response>>

\* handle_run_module, from the call to the return
HandleRunModule ==
    /\ exec.phase = "called"
    /\ exec.tool = "run_module"
    /\ IF exec.outcome.kind = "tempfile_failed"
       THEN exec' = ExecDone(exec, 0, <<>>, FALSE)
       ELSE exec' = ExecDone(exec, 1, <<>>, exec.outcome.kind = "ok")
    /\ UNCHANGED <<tracker, patfile, pc, clock, recs, observed, graph, pathVars,
                   navVars, api_index, request, response>>

ExecNext == CallExec \/ HandleRunOperation \/ HandleRunModule

ExecSpec == ExecInit /\ [][ExecNext]_vars

\* ------------------------------------------------------------------------
\* build_navigation_graph.extract_relationships
\* ------------------------------------------------------------------------
\* total number of property records of an enumerated document
MaxProps == 2

\* the keys of REL_TYPES
NonPlainKinds ==
    {"owns_atomic", "owns_sequence", "owns_collection",
     "references_atomic", "references_sequence", "references_collection"}

\* REL_TYPES[rel_type]
REL_TYPES(rel_type) ==
    [direction |-> IF rel_type \in {"owns_atomic", "owns_sequence", "owns_collection"}
                   THEN "child" ELSE "reference",
     cardinality |-> IF rel_type \in {"owns_atomic", "references_atomic"}
                     THEN "one" ELSE "many",
     ordered |-> rel_type \in {"owns_sequence", "references_sequence"}]

\* target_type is None (or missing, or "")
NoTarget == <<>>

\* a property record of the liblcm document; has_name tells whether the
\* record has the key "name", relationship "" that it has no "relationship"
PropertyRecord(has_name, name, relationship, target_type, kind) ==
    [has_name |-> has_name, name |-> name, relationship |-> relationship,
     target_type |-> target_type, kind |-> kind]

\* prop.get("name", "")
PropName(prop) == IF prop.has_name THEN prop.name ELSE <<>>

\* the result before any entity is read
NoRelationships == [entities |-> EmptyDict, graph |-> EmptyDict, reverse_graph |-> EmptyDict]

\* the four lists of an entity
EmptyRelationships ==
    [children |-> <<>>, parents |-> <<>>, references |-> <<>>, referenced_by |-> <<>>]

\* defaultdict(list)[k].append(v)
AppendAt(d, k, v) == Put(d, k, Append(IF Has(d, k) THEN d.at[k] ELSE <<>>, v))

\* a builder that records no inverse entry for a reference
ProcessPropertyNoReverse(acc, entity_id, prop) ==
    LET rel_type == prop.relationship
        target_type == prop.target_type
        prop_name == PropName(prop)
        rel_info == REL_TYPES(rel_type)
        relationship ==
            [target |-> target_type, via |-> prop_name,
             access_pattern |-> RemoveFirst(Lower(entity_id), "i") \o <<".">> \o prop_name,
             cardinality |-> rel_info.cardinality, kind |-> prop.kind,
             ordered |-> rel_info.ordered]
    IN  IF rel_type \notin NonPlainKinds \/ target_type = NoTarget THEN acc
        ELSE IF rel_info.direction = "child"
        THEN [relationships |-> [acc.relationships EXCEPT !.children = Append(@, relationship)],
              graph |-> AppendAt(acc.graph, entity_id, <<target_type, prop_name, "owns">>),
              reverse_graph |-> AppendAt(acc.reverse_graph, target_type,
                                         <<entity_id, prop_name, "owned_by">>)]
        ELSE [relationships |-> [acc.relationships EXCEPT !.references = Append(@, relationship)],
              graph |-> AppendAt(acc.graph, entity_id, <<target_type, prop_name, "references">>),
              reverse_graph |-> acc.reverse_graph]

\* the body of `for prop in entity.get("properties", [])`
ProcessProperty(acc, entity_id, prop) ==
    LET rel_type == prop.relationship
        target_type == prop.target_type
        prop_name == PropName(prop)
        rel_info == REL_TYPES(rel_type)
        relationship ==
            [target |-> target_type, via |-> prop_name,
             access_pattern |-> RemoveFirst(Lower(entity_id), "i") \o <<".">> \o prop_name,
             cardinality |-> rel_info.cardinality, kind |-> prop.kind,
             ordered |-> rel_info.ordered]
    IN  IF rel_type \notin NonPlainKinds \/ target_type = NoTarget THEN acc
        ELSE IF rel_info.direction = "child"
        THEN [relationships |-> [acc.relationships EXCEPT !.children = Append(@, relationship)],
              graph |-> AppendAt(acc.graph, entity_id, <<target_type, prop_name, "owns">>),
              reverse_graph |-> AppendAt(acc.reverse_graph, target_type,
                                         <<entity_id, prop_name, "owned_by">>)]
        ELSE [relationships |-> [acc.relationships EXCEPT !.references = Append(@, relationship)],
              graph |-> AppendAt(acc.graph, entity_id, <<target_type, prop_name, "references">>),
              reverse_graph |-> AppendAt(acc.reverse_graph, target_type,
                                         <<entity_id, prop_name, "referenced_by">>)]

\* the properties of one entity, from property i on
RECURSIVE ProcessProperties(_, _, _, _)
ProcessProperties(acc, entity_id, properties, i) ==
    IF i > Len(properties) THEN acc
    ELSE ProcessProperties(ProcessProperty(acc, entity_id, properties[i]),
                           entity_id, properties, i + 1)

\* for entity_id, entity in liblcm.get("entities", {}).items(), from entity i on
RECURSIVE ProcessEntities(_, _, _)
ProcessEntities(res, entities, i) ==
    IF i > Len(entities) THEN res
    ELSE LET done == ProcessProperties(
                        [relationships |-> EmptyRelationships, graph |-> res.graph,
                         reverse_graph |-> res.reverse_graph],
                        entities[i].name, entities[i].properties, 1)
         IN  ProcessEntities(
                [entities |-> Put(res.entities, entities[i].name, done.relationships),
                 graph |-> done.graph, reverse_graph |-> done.reverse_graph],
                entities, i + 1)

\* the parents and referenced_by lists of one entity out of its reverse
\* entries, from entry i on
RECURSIVE AddParents(_, _, _)
AddParents(relationships, entries, i) ==
    IF i > Len(entries) THEN relationships
    ELSE AddParents(
            IF entries[i][3] = "owned_by"
            THEN [relationships EXCEPT !.parents =
                    Append(@, [target |-> entries[i][1], via |-> entries[i][2],
                               relationship |-> "owned_by"])]
            ELSE [relationships EXCEPT !.referenced_by =
                    Append(@, [target |-> entries[i][1], via |-> entries[i][2],
                               relationship |-> "referenced_by"])],
            entries, i + 1)

\* extract_relationships(liblcm); entities is the list of the items of
\* liblcm["entities"], each with its key as name
extract_relationships(entities) ==
    LET res == ProcessEntities(NoRelationships, entities, 1)
    IN  [entities |->
            [keys |-> res.entities.keys,
             at |-> [e \in DOMAIN res.entities.at |->
                        IF Has(res.reverse_graph, e)
                        THEN AddParents(res.entities.at[e], res.reverse_graph.at[e], 1)
                        ELSE res.entities.at[e]]],
         graph |-> res.graph,
         reverse_graph |-> res.reverse_graph]

\* the kind code that goes with a relationship in the document
KindFor(relationship) ==
    CASE relationship = "owns_atomic" -> "OA"
      [] relationship = "owns_sequence" -> "OS"
      [] relationship = "owns_collection" -> "OC"
      [] relationship = "references_atomic" -> "RA"
      [] relationship = "references_sequence" -> "RS"
      [] relationship = "references_collection" -> "RC"
      [] OTHER -> "basic"

\* property records: named ones of each of the six kinds and of none with
\* the target K, named ones without a target type and with the target IA,
\* and records without a name, of a kind or of none, with a target or not
PropertyRecords ==
    {PropertyRecord(TRUE, SensesOS, r, K, KindFor(r)) : r \in NonPlainKinds \cup {""}}
    \cup {PropertyRecord(TRUE, FormRA, r, t, KindFor(r)) :
            r \in {"owns_sequence", "references_atomic"}, t \in {NoTarget, IA}}
    \cup {PropertyRecord(FALSE, <<>>, r, t, KindFor(r)) :
            r \in {"owns_atomic", "references_collection", ""}, t \in {NoTarget, K}}

\* an item of liblcm["entities"]
BuilderEntity(name, properties) == [name |-> name, properties |-> properties]

\* the documents with the entity IA, or IA and K, and up to n properties
BuilderDocs(n) ==
    {<<BuilderEntity(IA, x)>> : x \in UNION {[1..a -> PropertyRecords] : a \in 0..n}}
    \cup UNION {{<<BuilderEntity(IA, x), BuilderEntity(K, y)>> :
                    x \in [1..t[1] -> PropertyRecords],
                    y \in [1..t[2] -> PropertyRecords]} :
                t \in {u \in (0..n) \X (0..n) : u[1] + u[2] <= n}}

\* the document to build from and the result of the build
BuildRequest(entities) == [tool |-> "build_navigation_graph", entities |-> entities]
BuildResponse(result) == [tool |-> "build_navigation_graph", result |-> result]

BuilderInit ==
    /\ PatInit /\ PathIdle /\ NavIdle
    /\ api_index = NoIndex
    /\ exec = NoExec
    /\ request \in {BuildRequest(d) : d \in BuilderDocs(MaxProps)}
    /\ response = NoResponse

\* relationships = extract_relationships(liblcm)
ExtractRelationships ==
    /\ response = NoResponse
    /\ response' = BuildResponse(extract_relationships(request.entities))
    /\ UNCHANGED <<api_index, request, exec, graph, pathVars, navVars, patVars>>

BuilderNext == ExtractRelationships

BuilderSpec == BuilderInit /\ [][BuilderNext]_vars

\* ------------------------------------------------------------------------
\* Record calls on an empty store, with the list of the calls made
\* ------------------------------------------------------------------------
\* number of record calls that are listed
MaxLogged == 4

\* success with an error message passed, two failures that share a bucket,
\* a failure of another bucket
LoggedInputs ==
    {[code |-> c, success |-> TRUE, error_msg |-> MsgFirst,
      error_type |-> "AttributeError"] : c \in Codes}
    \cup {[code |-> c, success |-> FALSE, error_msg |-> MsgFirst,
           error_type |-> "AttributeError"] : c \in Codes}
    \cup {[code |-> c, success |-> FALSE, error_msg |-> MsgSecond, error_type |-> ""] :
           c \in Codes}
    \cup {[code |-> c, success |-> FALSE, error_msg |-> MsgTimeout,
           error_type |-> "Timeout"] : c \in Codes}

\* the record calls made so far
CallLog(calls) == [tool |-> "record_operation", calls |-> calls]

\* one call: its arguments and the reading of the clock
LoggedCall(in, now) ==
    [code |-> in.code, success |-> in.success, error_msg |-> in.error_msg,
     error_type |-> in.error_type, now |-> now]

LoggedInit ==
    /\ PatInit /\ PathIdle /\ NavIdle
    /\ api_index = NoIndex
    /\ request = NoRequest
    /\ exec = NoExec
    /\ response = CallLog(<<>>)

\* record_operation, from extract_api_calls to self.save()
RecordLogged ==
    /\ RecordCalls < MaxLogged
    /\ \E in \in LoggedInputs :
        /\ \E api_calls \in extract_api_calls(in.code) :
            tracker' = [tracker EXCEPT ![1] =
                    record_operation(@, in.code, api_calls, in.success, in.error_msg,
                                     in.error_type, clock + 1)]
        /\ observed' = Observe(observed, in)
        /\ response' = CallLog(Append(response.calls, LoggedCall(in, clock + 1)))
    /\ patfile' = save(tracker'[1])
    /\ clock' = clock + 1
    /\ recs' = NoRecs
    /\ UNCHANGED <<pc, graph, pathVars, navVars, api_index, request, exec>>

LoggedNext == RecordLogged

LoggedSpec == LoggedInit /\ [][LoggedNext]_vars

\* ------------------------------------------------------------------------
\* A store loaded from whatever patterns.json holds
\* ------------------------------------------------------------------------
\* a key that the JSON object of the file does not have
Absent == [keys |-> <<>>, at |-> <<>>, absent |-> TRUE]

IsAbsent(map) == "absent" \in DOMAIN map

\* the value of a file whose JSON text is a list: it has no keys at all
NotAnObject == [api_patterns |-> Absent, error_patterns |-> Absent, not_object |-> TRUE]

IsObject(patterns) == "not_object" \notin DOMAIN patterns

\* code without any API call: entry.Guid
CodePlain == <<Attr("entry", "Guid")>>

\* the store after one successful project.Save / LexEntryOperations.Create
StoreWithData ==
    record_operation(EmptyStore, CodeProject, PatternList(CodeProject), TRUE, <<>>, "", 1)

\* patterns.json at the start of the server: missing, not JSON, or JSON
\* that is {"api_patterns": .., "error_patterns": ..} (empty or filled),
\* {"error_patterns": {}}, {"api_patterns": {}}, {} or []
FileValues ==
    {[exists |-> FALSE, parses |-> FALSE, data |-> EmptyStore],
     [exists |-> TRUE, parses |-> FALSE, data |-> EmptyStore]}
    \cup {[exists |-> TRUE, parses |-> TRUE, data |-> d] :
            d \in {EmptyStore, StoreWithData,
                   [api_patterns |-> Absent, error_patterns |-> EmptyDict],
                   [api_patterns |-> EmptyDict, error_patterns |-> Absent],
                   [api_patterns |-> Absent, error_patterns |-> Absent],
                   NotAnObject}}

\* "'api_patterns'" and "'error_patterns'": str(e) of the KeyError
MsgKeyApi == <<"'", "a", "p", "i", "_", "p", "a", "t", "t", "e", "r", "n", "s", "'">>
MsgKeyErr == <<"'", "e", "r", "r", "o", "r", "_", "p", "a", "t", "t", "e", "r", "n", "s", "'">>

\* record_operation on a store that may lack a map: self.patterns[...] of a
\* key that is not there raises, after what was done before it
RecordOutcome(patterns, code, api_calls, success, error_msg, error_type, now) ==
    LET api_raises == api_calls # <<>> /\ IsAbsent(patterns.api_patterns)
        err_raises == ~success /\ error_msg # <<>> /\ IsAbsent(patterns.error_patterns)
        api == IF api_calls = <<>> THEN patterns.api_patterns
               ELSE RecordApiCalls(patterns.api_patterns, api_calls, 1, success,
                                   error_msg, error_type, now)
    IN  IF api_raises
        THEN [raised |-> TRUE, message |-> MsgKeyApi, patterns |-> patterns]
        ELSE IF err_raises
        THEN [raised |-> TRUE, message |-> MsgKeyErr,
              patterns |-> [patterns EXCEPT !.api_patterns = api]]
        ELSE [raised |-> FALSE, message |-> <<>>,
              patterns |->
                [patterns EXCEPT
                    !.api_patterns = api,
                    !.error_patterns =
                        IF ~success /\ error_msg # <<>>
                        THEN RecordError(@, code, api_calls, error_msg, now)
                        ELSE @]]

\* get_recommendations reads the maps with .get(key, {}): only a value that
\* is not an object makes it raise
RecommendationsRaise(patterns) == ~IsObject(patterns)

FileCodes == Codes \cup {CodePlain}

FileRecordInputs ==
    {[code |-> c, success |-> TRUE, error_msg |-> <<>>, error_type |-> ""] : c \in FileCodes}
    \cup {[code |-> c, success |-> FALSE, error_msg |-> MsgFirst,
           error_type |-> "AttributeError"] : c \in FileCodes}

\* the outcomes of an execution that reaches the subprocess
RunOutcomes == {o \in ExecOutcomes : o.kind # "tempfile_failed" /\ o.error \in {<<>>, MsgFirst}}

\* what a call on the store came to
StoreCall(tool, in, raised) == [tool |-> tool, in |-> in, raised |-> raised]

FileInit ==
    /\ patfile \in FileValues
    /\ tracker = [p \in Procs |-> load(patfile)]
    /\ pc = [p \in Procs |-> "idle"]
    /\ clock = 0
    /\ recs = NoRecs
    /\ observed = [k \in AllKeys |-> [s |-> 0, f |-> 0]]
    /\ PathIdle /\ NavIdle /\ ReqIdle

FileUnchanged == UNCHANGED <<pc, observed, graph, pathVars, navVars, api_index, request, exec>>

\* pattern_tracker.record_operation(...) on the loaded store
RecordOnLoaded ==
    /\ response = NoResponse
    /\ \E in \in FileRecordInputs :
        \E api_calls \in extract_api_calls(in.code) :
            LET r == RecordOutcome(tracker[1], in.code, api_calls, in.success,
                                   in.error_msg, in.error_type, clock + 1)
            IN  /\ tracker' = [tracker EXCEPT ![1] = r.patterns]
                /\ patfile' = IF r.raised THEN patfile ELSE save(r.patterns)
                /\ response' = StoreCall("record", in, r.raised)
    /\ clock' = clock + 1
    /\ recs' = NoRecs
    /\ FileUnchanged

\* pattern_tracker.get_recommendations() on the loaded store
RecommendOnLoaded ==
    /\ response = NoResponse
    /\ response' = StoreCall("recommendations",
                             [code |-> <<>>, success |-> TRUE, error_msg |-> <<>>,
                              error_type |-> ""],
                             RecommendationsRaise(tracker[1]))
    /\ recs' = IF RecommendationsRaise(tracker[1]) THEN recs
               ELSE Recs(get_recommendations(tracker[1]))
    /\ UNCHANGED <<tracker, patfile, clock>>
    /\ FileUnchanged

\* handle_run_operation from the return of the subprocess on: the record
\* call and get_recommendations inside the try, the record call of
\* `except Exception` for what they raise; the record call of the timeout
\* and subprocess error handlers is outside any try
RunOperationOnLoaded ==
    /\ response = NoResponse
    /\ \E code \in FileCodes, outcome \in RunOutcomes :
        \E calls1 \in extract_api_calls(code), calls2 \in extract_api_calls(code) :
            LET in == RecordArgs(code, outcome)
                in_try == outcome.kind \notin {"timeout", "oserror"}
                first == RecordOutcome(tracker[1], code, calls1, in.success,
                                       in.error_msg, in.error_type, clock + 1)
                caught == in_try /\ (first.raised \/ RecommendationsRaise(first.patterns))
                second == RecordOutcome(first.patterns, code, calls2, FALSE,
                                        IF first.raised THEN first.message ELSE MsgKeyApi,
                                        "SubprocessError", clock + 1)
                unhandled == IF in_try THEN caught /\ second.raised ELSE first.raised
                final == IF caught THEN second.patterns ELSE first.patterns
            IN  /\ tracker' = [tracker EXCEPT ![1] = final]
                /\ patfile' =
                        IF caught /\ ~second.raised THEN save(second.patterns)
                        ELSE IF ~first.raised THEN save(first.patterns)
                        ELSE patfile
                /\ response' = StoreCall("run_operation", in, unhandled)
    /\ clock' = clock + 1
    /\ recs' = NoRecs
    /\ FileUnchanged

FileNext == RecordOnLoaded \/ RecommendOnLoaded \/ RunOperationOnLoaded

FileSpec == FileInit /\ [][FileNext]_vars

\* ------------------------------------------------------------------------
\* Search requests against loaded documents
\* ------------------------------------------------------------------------
Method(name, description, summary) ==
    [name |-> name, description |-> description, summary |-> summary]

Property(name, pythonic_name, description, kind) ==
    [name |-> name, pythonic_name |-> pythonic_name, description |-> description,
     kind |-> kind]

Entity(name, methods, properties) ==
    [name |-> name, methods |-> methods, properties |-> properties]

\* "Senses"
WordSensesCap == <<"S", "e", "n", "s", "e", "s">>

\* a loaded document without a suffix index
Doc(entities) ==
    [loaded |-> TRUE, entities |-> entities,
     suffix_index |-> [by_pythonic_name |-> EmptyDict, by_full_name |-> EmptyDict]]

\* methods: AddGloss "set a gloss", GetGloss (summary "gloss text"),
\* Find "get gloss entry"
AddGloss == Method(<<"A", "d", "d", "G", "l", "o", "s", "s">>, <<"s", "e", "t", " ", "a", " ", "g", "l", "o", "s", "s">>, <<>>)
GetGloss == Method(<<"G", "e", "t", "G", "l", "o", "s", "s">>, <<>>, <<"g", "l", "o", "s", "s", " ", "t", "e", "x", "t">>)
Find == Method(<<"F", "i", "n", "d">>, <<"g", "e", "t", " ", "g", "l", "o", "s", "s", " ", "e", "n", "t", "r", "y">>, <<>>)

\* properties: SensesOS (pythonic Senses, kind OS), Gloss "meaning"
SensesProp == Property(<<"S", "e", "n", "s", "e", "s", "O", "S">>, <<"S", "e", "n", "s", "e", "s">>, <<>>, <<"O", "S">>)
GlossProp == Property(<<"G", "l", "o", "s", "s">>, <<"G", "l", "o", "s", "s">>, <<"m", "e", "a", "n", "i", "n", "g">>, <<"M", "S">>)

LexSenseOperations == <<"L", "e", "x", "S", "e", "n", "s", "e", "O", "p", "e", "r", "a", "t", "i", "o", "n", "s">>
LexEntryOperations == <<"L", "e", "x", "E", "n", "t", "r", "y", "O", "p", "e", "r", "a", "t", "i", "o", "n", "s">>
FLExProject == <<"F", "L", "E", "x", "P", "r", "o", "j", "e", "c", "t">>
ILexEntry == <<"I", "L", "e", "x", "E", "n", "t", "r", "y">>
ILexSense == <<"I", "L", "e", "x", "S", "e", "n", "s", "e">>

\* the suffix index of a document whose ILexEntry has SensesOS
SensesIndex ==
    [by_pythonic_name |->
        Put(EmptyDict, <<"S", "e", "n", "s", "e", "s">>,
            <<[entity |-> ILexEntry, full_name |-> <<"S", "e", "n", "s", "e", "s", "O", "S">>, kind |-> <<"O", "S">>]>>),
     by_full_name |->
        Put(EmptyDict, ILexEntry \o <<".">> \o <<"S", "e", "n", "s", "e", "s", "O", "S">>,
            [entity |-> ILexEntry, pythonic_name |-> <<"S", "e", "n", "s", "e", "s">>, kind |-> <<"O", "S">>])]

\* flexlibs2_api.json, flexlibs_api.json and liblcm_api.json as found
Flexlibs2Docs ==
    {NoDoc,
     Doc(<<Entity(LexSenseOperations, <<AddGloss, GetGloss>>, <<>>)>>),
     Doc(<<Entity(LexSenseOperations, <<GetGloss>>, <<>>),
           Entity(LexEntryOperations, <<Find, AddGloss>>, <<>>)>>)}

FlexlibsStableDocs ==
    {NoDoc,
     Doc(<<Entity(FLExProject, <<GetGloss, AddGloss>>, <<>>)>>),
     Doc(<<Entity(FLExProject, <<Find>>, <<>>)>>)}

LiblcmDocs ==
    {NoDoc,
     [Doc(<<Entity(ILexEntry, <<Find>>, <<SensesProp>>)>>)
        EXCEPT !.suffix_index = SensesIndex],
     [Doc(<<Entity(ILexEntry, <<>>, <<SensesProp>>),
            Entity(ILexSense, <<GetGloss>>, <<GlossProp>>)>>)
        EXCEPT !.suffix_index = SensesIndex],
     Doc(<<Entity(ILexSense, <<AddGloss>>, <<GlossProp>>)>>)}

\* an item of the vector index's metadata, with the score of its hit
Hit(score, source, entity, name) == SearchItem(score, source, entity, name, "method")

\* the vector index: not loaded; loaded, with the ranked hits for the query
SemanticStates ==
    {[enabled |-> FALSE, hits |-> <<>>],
     [enabled |-> TRUE, hits |-> <<>>],
     [enabled |-> TRUE, hits |-> <<Hit(9, "flexlibs2", LexSenseOperations, <<"A", "d", "d", "G", "l", "o", "s", "s">>)>>],
     [enabled |-> TRUE,
      hits |-> <<Hit(9, "flexlibs_stable", FLExProject, <<"F", "i", "n", "d">>),
                 Hit(8, "liblcm", ILexEntry, <<"F", "i", "n", "d">>),
                 Hit(7, "flexlibs2", LexSenseOperations, <<"G", "e", "t", "G", "l", "o", "s", "s">>),
                 Hit(6, "flexlibs2", LexSenseOperations, <<"A", "d", "d", "G", "l", "o", "s", "s">>)>>]}

\* APIIndex.load: every document is there or is missing
Indexes(navs) ==
    [liblcm : LiblcmDocs, flexlibs2 : Flexlibs2Docs, flexlibs_stable : FlexlibsStableDocs,
     navigation_graph : navs, semantic_search : SemanticStates]

\* "add", "Gloss", "add gloss", "senses", "zzz"
Queries == {<<"a", "d", "d">>, <<"G", "l", "o", "s", "s">>, <<"a", "d", "d", " ", "g", "l", "o", "s", "s">>, <<"s", "e", "n", "s", "e", "s">>, <<"z", "z", "z">>}

ApiModes == {"flexlibs2", "flexlibs_stable", "liblcm", "all"}

MaxResultsArgs == {1, 2, 3}

SearchArgs ==
    [tool : {"search_by_capability"}, query : Queries, max_results : MaxResultsArgs,
     api_mode : ApiModes, semantic : BOOLEAN]

SearchInit ==
    /\ PatInit /\ PathIdle /\ NavIdle
    /\ exec = NoExec
    /\ api_index \in Indexes({NotLoaded})
    /\ request \in SearchArgs
    /\ response = NoResponse

\* the search request is answered
HandleSearchByCapability ==
    /\ response = NoResponse
    /\ response' = handle_search_by_capability(api_index, request)
    /\ UNCHANGED <<api_index, request, exec, graph, pathVars, navVars, patVars>>

SearchNext == HandleSearchByCapability

SearchSpec == SearchInit /\ [][SearchNext]_vars

\* ------------------------------------------------------------------------
\* A query and the same query with one more term
\* ------------------------------------------------------------------------
\* args.get("max_results", 10)
DefaultMaxResults == 10

\* the term added to the query: "add", "get", "gloss", "senses"
ExtraTerms == {WordAdd, WordGet, WordGloss, WordSenses}

\* the arguments of the search for the query alone and with the extra term
QueryArgs(req) ==
    [tool |-> "search_by_capability", query |-> req.query,
     max_results |-> req.max_results, api_mode |-> req.api_mode,
     semantic |-> req.semantic]

LongerQueryArgs(req) ==
    [QueryArgs(req) EXCEPT !.query = req.query \o <<" ">> \o req.extra]

MonoInit ==
    /\ PatInit /\ PathIdle /\ NavIdle
    /\ exec = NoExec
    /\ api_index \in {i \in Indexes({NotLoaded}) : i.semantic_search.hits = <<>>}
    /\ request \in [tool : {"search_by_capability"}, query : Queries, extra : ExtraTerms,
                     max_results : {DefaultMaxResults}, api_mode : ApiModes,
                     semantic : BOOLEAN]
    /\ response = [first |-> NoResponse, second |-> NoResponse]

\* the search for the query is answered
SearchQuery ==
    /\ response.first = NoResponse
    /\ response' = [response EXCEPT
            !.first = handle_search_by_capability(api_index, QueryArgs(request))]
    /\ UNCHANGED <<api_index, request, exec, graph, pathVars, navVars, patVars>>

\* the search for the query with the extra term is answered
SearchLongerQuery ==
    /\ response.first # NoResponse
    /\ response.second = NoResponse
    /\ response' = [response EXCEPT
            !.second = handle_search_by_capability(api_index, LongerQueryArgs(request))]
    /\ UNCHANGED <<api_index, request, exec, graph, pathVars, navVars, patVars>>

MonoNext == SearchQuery \/ SearchLongerQuery

MonoSpec == MonoInit /\ [][MonoNext]_vars

PathQueries ==
    {[fn |-> "bfs", start |-> a, end |-> b, max_depth |-> d] :
        a \in Entities, b \in Entities, d \in Depths} \cup
    {[fn |-> "builder", start |-> a, end |-> b, max_depth |-> d] :
        a \in PrefixedEntities, b \in PrefixedEntities, d \in Depths}

\* the result slot before the call has returned
Pending == [isNone |-> TRUE, steps |-> <<>>, searched |-> -1]

\* ------------------------------------------------------------------------
\* Path functions applied to every graph and every argument tuple
\* ------------------------------------------------------------------------
PathInit ==
    /\ graph \in GraphsUpTo(MaxEdges)
    /\ pathq \in PathQueries
    /\ pathr = Pending
    /\ navdoc = NotLoaded
    /\ navq = NoNavQuery
    /\ navr = NavPending
    /\ PatIdle
    /\ ReqIdle

\* the call of the server's resolver returns
CallFindPathBfs ==
    /\ pathr = Pending
    /\ pathq.fn = "bfs"
    /\ pathr' = find_path_bfs(graph, pathq.start, pathq.end, pathq.max_depth)
    /\ UNCHANGED <<graph, pathq, navVars, patVars, reqVars>>

\* the call of the builder's resolver returns
CallFindPath ==
    /\ pathr = Pending
    /\ pathq.fn = "builder"
    /\ pathr' = find_path(graph, pathq.start, pathq.end, pathq.max_depth)
    /\ UNCHANGED <<graph, pathq, navVars, patVars, reqVars>>

PathNext == CallFindPathBfs \/ CallFindPath

PathSpec == PathInit /\ [][PathNext]_vars

\* ------------------------------------------------------------------------
\* The search loop of the path functions, one queue entry at a time
\* ------------------------------------------------------------------------
\* the calls with the smallest and with the default depth limit
LoopQueries == {q \in PathQueries : q.max_depth \in {1, DefaultMaxDepth}}

\* queue, visited and the return value; enqueued lists the entities in the
\* order they were put on the queue, taken counts the entries popped
LoopState(queue, visited, enqueued, taken, returned, result) ==
    [tool |-> "find_path", queue |-> queue, visited |-> visited,
     enqueued |-> enqueued, taken |-> taken, returned |-> returned,
     result |-> result]

LoopInit ==
    /\ graph \in GraphsUpTo(MaxEdges)
    /\ pathq \in LoopQueries
    /\ pathr = Pending
    /\ navdoc = NotLoaded
    /\ navq = NoNavQuery
    /\ navr = NavPending
    /\ PatIdle
    /\ ReqIdle

LoopUnchanged == UNCHANGED <<graph, pathq, navVars, patVars, api_index, request, exec>>

\* the name the queue starts with and the name the scan looks for
LoopStart == IF pathq.fn = "builder" THEN normalize(pathq.start) ELSE pathq.start
LoopEnd == IF pathq.fn = "builder" THEN normalize(pathq.end) ELSE pathq.end

\* if start == end: return []; queue = deque([(start, [])]); visited = {start}
EnterSearch ==
    /\ response = NoResponse
    /\ IF pathq.start = pathq.end
       THEN /\ response' = LoopState(<<>>, {}, <<>>, 0, TRUE, ListResult(<<>>, 0))
            /\ pathr' = ListResult(<<>>, 0)
       ELSE /\ response' = LoopState(<< <<LoopStart, <<>> >> >>, {LoopStart},
                                     <<LoopStart>>, 0, FALSE, Pending)
            /\ pathr' = pathr
    /\ LoopUnchanged

\* one pass of `while queue:`: popleft, the depth test, the scan of the edges
TakeEntry ==
    /\ response # NoResponse
    /\ ~response.returned
    /\ response.queue # <<>>
    /\ LET current == Head(response.queue)[1]
           path == Head(response.queue)[2]
           rest == Tail(response.queue)
           r == IF pathq.fn = "builder"
                THEN FpScan(GraphGet(graph, current), 1, current, path, LoopEnd,
                            rest, response.visited)
                ELSE BfsScan(GraphGet(graph, current), 1, current, path, LoopEnd,
                             rest, response.visited)
           added == SubSeq(r.queue, Len(rest) + 1, Len(r.queue))
       IN  IF DepthPruned(path, pathq.max_depth)
           THEN /\ response' = [response EXCEPT !.queue = rest, !.taken = @ + 1]
                /\ pathr' = pathr
           ELSE IF r.hit
           THEN /\ response' = [response EXCEPT !.queue = rest, !.taken = @ + 1,
                        !.returned = TRUE,
                        !.result = ListResult(r.path, response.taken + 1)]
                /\ pathr' = ListResult(r.path, response.taken + 1)
           ELSE /\ response' = [response EXCEPT !.queue = r.queue, !.taken = @ + 1,
                        !.visited = r.visited,
                        !.enqueued = @ \o [k \in 1..Len(added) |-> added[k][1]]]
                /\ pathr' = pathr
    /\ LoopUnchanged

\* the queue is empty: return None
ExhaustFrontier ==
    /\ response # NoResponse
    /\ ~response.returned
    /\ response.queue = <<>>
    /\ response' = [response EXCEPT !.returned = TRUE,
                        !.result = NoneResult(response.taken)]
    /\ pathr' = NoneResult(response.taken)
    /\ LoopUnchanged

LoopNext == EnterSearch \/ TakeEntry \/ ExhaustFrontier

LoopSpec == LoopInit /\ [][LoopNext]_vars

\* ------------------------------------------------------------------------
\* Navigation queries against a loaded document
\* ------------------------------------------------------------------------
NavMaxEdges == MaxEdges - 1

\* the base names N of the interfaces "I" + N
BaseNames == {DropFirst(e, 1) : e \in PrefixedEntities}

\* the three forms of a name: N, "I" + N, N + "Operations"
Forms(N) == {N, <<"I">> \o N, N \o OperationsTok}

NavNames == UNION {Forms(N) : N \in BaseNames} \cup {K}

NavInit ==
    /\ graph \in GraphsUpTo(NavMaxEdges)
    /\ navdoc \in {build_navigation_graph(graph), NotLoaded}
    /\ navq \in [from_object : NavNames, to_object : NavNames]
    /\ navr = NavPending
    /\ PathIdle
    /\ PatIdle
    /\ ReqIdle

\* the adjacency lists of the document change (an edge of the entity set is
\* gone) while its common_paths stay as they were computed
LoadChangedGraph ==
    /\ navr = NavPending
    /\ navdoc.loaded
    /\ navdoc.graph = graph
    /\ \E n \in Entities :
        /\ graph[n] # <<>>
        /\ navdoc' = [navdoc EXCEPT !.graph[n] = Tail(@)]
    /\ UNCHANGED <<graph, navq, navr, pathVars, patVars, reqVars>>

\* the navigation query is answered
HandleGetNavigationPath ==
    /\ navr = NavPending
    /\ navr' = handle_get_navigation_path(navdoc, navq)
    /\ UNCHANGED <<graph, navdoc, navq, pathVars, patVars, reqVars>>

NavNext == LoadChangedGraph \/ HandleGetNavigationPath

NavSpec == NavInit /\ [][NavNext]_vars

\* ------------------------------------------------------------------------
\* Queries on an index with documents missing
\* ------------------------------------------------------------------------
\* ILexEntry owns ILexSense through SensesOS, in the names of the graphs
LexGraph == (IA :> <<<<IIn, SensesOS, "owns">>>>) @@ (IIn :> <<>>) @@ (K :> <<>>)

\* navigation_graph.json: not found, or built from LexGraph
NavigationGraphs == {NotLoaded, build_navigation_graph(LexGraph)}

\* "LexSenseOperations", "ILexEntry", "Lex", "zzz"
ObjectTypes == {LexSenseOperations, ILexEntry, <<"L", "e", "x">>, <<"z", "z", "z">>}

ObjectApiArgs ==
    [tool : {"get_object_api"}, object_type : ObjectTypes,
     include_flexlibs2 : BOOLEAN, include_liblcm : BOOLEAN]

\* "Senses", "SensesOS", "Sense", "zzz"
PropertyNames == {WordSensesCap, WordSensesCap \o <<"O", "S">>, <<"S", "e", "n", "s", "e">>, <<"z", "z", "z">>}

ResolveArgs ==
    [tool : {"resolve_property"}, property_name : PropertyNames,
     context_entity : {NoContext, ILexEntry, ILexSense}]

NavigationArgs ==
    [tool : {"get_navigation_path"}, from_object : NavNames, to_object : NavNames]

\* the exception that leaves a handler, as the caller of call_tool sees it
Raised(tool) == [tool |-> tool, raised |-> TRUE]

IndexInit ==
    /\ PatInit /\ PathIdle /\ NavIdle
    /\ exec = NoExec
    /\ api_index \in Indexes(NavigationGraphs)
    /\ request = NoRequest
    /\ response = NoResponse

IndexUnchanged == UNCHANGED <<api_index, exec, graph, pathVars, navVars, patVars>>

QueryNavigation ==
    /\ request = NoRequest
    /\ \E args \in NavigationArgs :
        /\ request' = args
        /\ response' =
            IF Truthy(api_index.navigation_graph)
               /\ AttributeOfNone(api_index.navigation_graph)
            THEN Raised(args.tool)
            ELSE [tool |-> args.tool, raised |-> FALSE,
                  result |-> handle_get_navigation_path(api_index.navigation_graph, args)]
    /\ IndexUnchanged

QuerySearch ==
    /\ request = NoRequest
    /\ \E args \in SearchArgs :
        /\ request' = args
        /\ response' = handle_search_by_capability(api_index, args)
    /\ IndexUnchanged

QueryObjectApi ==
    /\ request = NoRequest
    /\ \E args \in ObjectApiArgs :
        /\ request' = args
        /\ response' = handle_get_object_api(api_index, args)
    /\ IndexUnchanged

QueryResolveProperty ==
    /\ request = NoRequest
    /\ \E args \in ResolveArgs :
        /\ request' = args
        /\ response' = handle_resolve_property(api_index, args)
    /\ IndexUnchanged

IndexNext == QueryNavigation \/ QuerySearch \/ QueryObjectApi \/ QueryResolveProperty

IndexSpec == IndexInit /\ [][IndexNext]_vars

\* ------------------------------------------------------------------------
\* Reachability, stated without a search
\* ------------------------------------------------------------------------
Range(q) == {q[i] : i \in 1..Len(q)}

Successors(g, S) == UNION {{e[1] : e \in Range(GraphGet(g, n))} : n \in S}

\* the entities that k or fewer edges (and at least one) lead to from S
RECURSIVE ReachWithin(_, _, _)
ReachWithin(g, S, k) ==
    IF k = 0 THEN {}
    ELSE Successors(g, S) \cup ReachWithin(g, Successors(g, S), k - 1)

IsEdge(g, st) == <<st.to, st.via, st.type>> \in Range(GraphGet(g, st.from))

\* steps lead from a to b, each step an edge of g
IsWalk(g, steps, a, b) ==
    /\ Len(steps) >= 1
    /\ steps[1].from = a
    /\ steps[Len(steps)].to = b
    /\ \A i \in 1..Len(steps) - 1 : steps[i + 1].from = steps[i].to
    /\ \A i \in 1..Len(steps) : IsEdge(g, steps[i])

PathCalled == pathr # Pending

\* ------------------------------------------------------------------------
\* Claims on the path functions (PathSpec)
\* ------------------------------------------------------------------------
\* C1: when B is reachable from A (A # B) by at most max_depth edges, the
\* call returns a list of 1..max_depth steps that is a walk from A to B over
\* edges of the graph.
C1_ReachableGivesWalk ==
    (/\ PathCalled
     /\ pathq.start # pathq.end
     /\ pathq.end \in ReachWithin(graph, {pathq.start}, pathq.max_depth))
    => (/\ ~pathr.isNone
        /\ Len(pathr.steps) <= pathq.max_depth
        /\ IsWalk(graph, pathr.steps, pathq.start, pathq.end))

\* a two-edge answer found at the depth limit
C1_Witness ==
    /\ PathCalled
    /\ pathq.start # pathq.end
    /\ pathq.max_depth = 2
    /\ pathq.end \notin ReachWithin(graph, {pathq.start}, 1)
    /\ ~pathr.isNone
    /\ Len(pathr.steps) = 2

\* C2: when no walk of at most max_depth edges connects A to B, the call
\* returns None, also when a longer walk connects them.
C2_UnreachableGivesNone ==
    (/\ PathCalled
     /\ pathq.start # pathq.end
     /\ pathq.end \notin ReachWithin(graph, {pathq.start}, pathq.max_depth))
    => pathr.isNone

\* B lies one edge beyond the depth limit and the answer is None
C2_Witness ==
    /\ PathCalled
    /\ pathq.start # pathq.end
    /\ pathq.end \notin ReachWithin(graph, {pathq.start}, pathq.max_depth)
    /\ pathq.end \in ReachWithin(graph, {pathq.start}, pathq.max_depth + 1)
    /\ pathr.isNone

\* C3: find_path(X, X) is the empty list, and no queue entry was taken.
C3_SameEntityEmptyPath ==
    (PathCalled /\ pathq.start = pathq.end)
    => (/\ ~pathr.isNone
        /\ pathr.steps = <<>>
        /\ pathr.searched = 0)

\* X has a self-loop that a search would have found
C3_Witness ==
    /\ PathCalled
    /\ pathq.start = pathq.end
    /\ pathq.start \in Successors(graph, {pathq.start})
    /\ pathr = ListResult(<<>>, 0)

\* ------------------------------------------------------------------------
\* Claims on navigation queries (NavSpec)
\* ------------------------------------------------------------------------
NavAnswered == navr # NavPending

NavKey == PathKey(navr.from_normalized, navr.to_normalized)

CacheHit == NavAnswered /\ navdoc.loaded /\ NavKey \in DOMAIN navdoc.common_paths

\* C4: with the graph loaded, a query whose normalized start and end are the
\* same entity is answered found = TRUE with the empty list of steps.
C4_SameEntityFound ==
    (NavAnswered /\ navdoc.loaded /\ navr.from_normalized = navr.to_normalized)
    => (navr.found /\ navr.steps = <<>>)

\* C5: on a cache hit the result is the cached entry, and steps and code
\* equal what find_path_bfs and generate_code_from_path give on the graph the
\* cache was built from.
C5_CacheEqualsFreshBfs ==
    CacheHit =>
        LET fresh == find_path_bfs(graph, navr.from_normalized, navr.to_normalized,
                                   DefaultMaxDepth)
        IN  /\ navr.found
            /\ navr.steps = navdoc.common_paths[NavKey].steps
            /\ navr.code = navdoc.common_paths[NavKey].code_pattern
            /\ ~fresh.isNone
            /\ navr.steps = fresh.steps
            /\ navr.code = generate_code_from_path(fresh.steps)

\* a cached two-step path through a collection property is returned
C5_Witness ==
    /\ CacheHit
    /\ navdoc.graph = graph
    /\ Len(navr.steps) = 2
    /\ IsCollectionProp(navr.steps[1].via)
    /\ navr.source = "precomputed"

\* C6: on a cache hit the cached steps are returned verbatim and
\* find_path_bfs is not called, whatever the graph of the document holds.
C6_CacheHitVerbatim ==
    CacheHit =>
        /\ navr.found
        /\ navr.source = "precomputed"
        /\ navr.steps = navdoc.common_paths[NavKey].steps
        /\ navr.code = navdoc.common_paths[NavKey].code_pattern
        /\ ~navr.ranBfs

\* the graph no longer has an edge of the cached path, which is returned
C6_Witness ==
    /\ CacheHit
    /\ \E i \in 1..Len(navr.steps) : ~IsEdge(navdoc.graph, navr.steps[i])
    /\ navr.steps = navdoc.common_paths[NavKey].steps
    /\ navr.steps # <<>>

\* C7: for every interface "I" + N, the names N, "I" + N and
\* N + "Operations" all normalize to "I" + N.
C7_ThreeFormsOneNode ==
    NavAnswered =>
        \A N \in BaseNames :
            /\ navq.from_object \in Forms(N) => navr.from_normalized = <<"I">> \o N
            /\ navq.to_object \in Forms(N) => navr.to_normalized = <<"I">> \o N

\* ------------------------------------------------------------------------
\* Claims on the pattern learning store (StoreSpec, SharedSpec)
\* ------------------------------------------------------------------------
Uses(k) == observed[k].s + observed[k].f

InList(list, k) == \E i \in 1..Len(list) : list[i].pattern = k

\* C8: a key is in preferred iff it was seen at least 3 times with a success
\* rate of at least 0.8, in avoid iff seen at least 3 times with a rate of at
\* most 0.3, else in neither; no key is in both lists.
C8_RecommendationThresholds ==
    recs.valid =>
        \A k \in AllKeys :
            /\ InList(recs.preferred_patterns, k)
                    <=> (Uses(k) >= 3 /\ 10 * observed[k].s >= 8 * Uses(k))
            /\ InList(recs.patterns_to_avoid, k)
                    <=> (Uses(k) >= 3 /\ 10 * observed[k].s <= 3 * Uses(k))
            /\ ~(InList(recs.preferred_patterns, k) /\ InList(recs.patterns_to_avoid, k))

\* one key preferred at exactly rate 0.8, another seen 3 times in neither list
C8_Witness ==
    /\ recs.valid
    /\ \E k \in AllKeys :
        /\ Uses(k) = 5 /\ observed[k].s = 4
        /\ InList(recs.preferred_patterns, k)
    /\ \E k \in AllKeys :
        /\ Uses(k) = 3 /\ observed[k].s = 2
        /\ ~InList(recs.preferred_patterns, k)
        /\ ~InList(recs.patterns_to_avoid, k)

StoredCount(store, k) ==
    IF Has(store.api_patterns, k)
    THEN [s |-> store.api_patterns.at[k].success_count,
          f |-> store.api_patterns.at[k].failure_count]
    ELSE [s |-> 0, f |-> 0]

\* C9: each record call adds exactly 1 to one counter of every key of its
\* code (the success counter iff success), however often the key occurs, so
\* the counters of a key equal the record calls whose code holds the key.
C9_OneUpdatePerKey ==
    \A k \in AllKeys : StoredCount(tracker[1], k) = observed[k]

\* a code that holds a key twice was recorded, and another code without it
C9_Witness ==
    /\ StoredCount(tracker[1], Dotted("LexEntryOperations", "Create")) = [s |-> 2, f |-> 1]
    /\ StoredCount(tracker[1], Dotted("*", "SensesOS")) = [s |-> 1, f |-> 1]
    /\ StoredCount(tracker[1], Dotted("project", "Save")) = [s |-> 1, f |-> 0]

\* the record calls made with success = False: every code of Codes holds
\* the key LexEntryOperations.Create, which each of these calls was seen with
FailedCalls == observed[Dotted("LexEntryOperations", "Create")].f

\* the error messages of the examples of an error bucket
ExampleErrors(bucket) == {bucket.examples[i].error : i \in 1..Len(bucket.examples)}

\* C12: the two messages, which differ by a hex address and a line number,
\* have one bucket key, and failures recorded with them are counted in a
\* single bucket: its count is the number of failed calls.
C12_OneBucketForBoth ==
    LET errors == tracker[1].error_patterns
        key == _normalize_error(MsgFirst)
    IN  /\ \A c \in Codes : Dotted("LexEntryOperations", "Create") \in KeysOf(c)
        /\ MsgFirst # MsgSecond
        /\ _normalize_error(MsgSecond) = key
        /\ Len(errors.keys) <= 1
        /\ FailedCalls > 0 =>
            /\ errors.keys = <<key>>
            /\ errors.at[key].count = FailedCalls

\* both messages were recorded, once each: one bucket with count 2
C12_Witness ==
    LET errors == tracker[1].error_patterns
    IN  /\ FailedCalls = 2
        /\ Len(errors.keys) = 1
        /\ errors.at[errors.keys[1]].count = 2
        /\ ExampleErrors(errors.at[errors.keys[1]]) = {MsgFirst, MsgSecond}

\* C10: once every writer has saved, patterns.json holds every outcome that
\* any of the servers recorded.
C10_NoLostUpdate ==
    (\A p \in Procs : pc[p] = "idle")
    => \A k \in AllKeys : StoredCount(load(patfile), k) = observed[k]

\* ------------------------------------------------------------------------
\* Claims on the restarted server (PersistSpec)
\* ------------------------------------------------------------------------
\* C11: after every record call the file holds the in-memory statistics, so
\* that a load of the file gives the store as it is in memory.
C11_FileEqualsMemory ==
    response.op = "record" => load(patfile) = tracker[1]

\* the counters the store has for k when only the call `last` was recorded
OnlyRecorded(last, k) ==
    IF k \in KeysOf(last.code)
    THEN IF last.success THEN [s |-> 1, f |-> 0] ELSE [s |-> 0, f |-> 1]
    ELSE [s |-> 0, f |-> 0]

\* C15: a load that meets a file that does not parse leaves the empty store;
\* recommendations on it are three empty lists and the next record call
\* counts from zero.
C15_CorruptFileResets ==
    response.corrupt =>
        /\ response.since = 0 =>
            /\ tracker[1] = EmptyStore
            /\ recs.valid =>
                /\ recs.preferred_patterns = <<>>
                /\ recs.patterns_to_avoid = <<>>
                /\ recs.common_errors_needing_fix = <<>>
        /\ response.since = 1 =>
            \A k \in AllKeys : StoredCount(tracker[1], k) = OnlyRecorded(response.last, k)

\* a record call was made on the store that a file of a failed write reset,
\* and recommendations were asked for
C15_Witness ==
    /\ response.corrupt
    /\ response.since = 1
    /\ patfile.data # EmptyStore
    /\ tracker[1] # EmptyStore
    /\ recs.valid

\* ------------------------------------------------------------------------
\* Claims on executions (ExecSpec)
\* ------------------------------------------------------------------------
ExecReturned == exec.phase = "done"

\* C13: every execution that reached the subprocess, by run_operation or by
\* run_module, made exactly one record call, for the code it executed.
C13_EveryExecutionRecorded ==
    (ExecReturned /\ exec.runs >= 1)
    => (Len(exec.records) = 1 /\ exec.records[1].code = exec.code)

\* C14: an execution whose subprocess timed out returns a failure, made
\* exactly one record call, a failure of kind Timeout for its code, and ran
\* the subprocess once.
C14_TimeoutRecordedOnce ==
    (ExecReturned /\ exec.outcome.kind = "timeout")
    => /\ ~exec.success
       /\ exec.runs = 1
       /\ Len(exec.records) = 1
       /\ exec.records[1].code = exec.code
       /\ ~exec.records[1].success
       /\ exec.records[1].error_type = "Timeout"

\* ------------------------------------------------------------------------
\* Claims on search (SearchSpec)
\* ------------------------------------------------------------------------
SearchAnswered == response # NoResponse

\* the sources whose items are candidates: the loaded primary corpora of the
\* mode, in order, and the fallback corpus when it was consulted
LoadedPrimary ==
    SelectSeq(mode_config(request.api_mode).primary,
              LAMBDA src : SourceDoc(api_index, src).loaded)

CandidateSources ==
    LoadedPrimary \o (IF response.consulted THEN <<"liblcm">> ELSE <<>>)

\* a candidate is named by its place in the enumeration: source, entity,
\* methods (0) before properties (1), position in the list
CandidatesOf(sources) ==
    UNION {UNION {
        {<<si, ei, 0, ii>> :
            ii \in 1..Len(SourceDoc(api_index, sources[si]).entities[ei].methods)}
        \cup (IF sources[si] = "liblcm"
              THEN {<<si, ei, 1, ii>> :
                    ii \in 1..Len(SourceDoc(api_index, sources[si]).entities[ei].properties)}
              ELSE {}) :
        ei \in 1..Len(SourceDoc(api_index, sources[si]).entities)} :
        si \in 1..Len(sources)}

CandEntity(sources, c) == SourceDoc(api_index, sources[c[1]]).entities[c[2]]

CandRecord(sources, c) ==
    IF c[3] = 0 THEN CandEntity(sources, c).methods[c[4]]
    ELSE CandEntity(sources, c).properties[c[4]]

\* the lowered searchable text of a candidate
CandText(sources, c) ==
    LET r == CandRecord(sources, c)
    IN  Lower(IF c[3] = 0 THEN r.name \o <<" ">> \o r.description \o <<" ">> \o r.summary
              ELSE r.name \o <<" ">> \o r.pythonic_name \o <<" ">> \o r.description
                   \o <<" ">> \o r.kind)

SearchTerms == ExpandedTerms(request.query, api_index.liblcm)

\* the candidate matched at least one expanded term
CandMatches(sources, c) == \E t \in SearchTerms : Contains(CandText(sources, c), t)

\* boost + 1 per term in the text + 2 per term in the name of a method, 3 per
\* term equal to a name of a property
CandScore(sources, c) ==
    LET r == CandRecord(sources, c)
    IN  SourceBoost(sources[c[1]])
        + Cardinality({t \in SearchTerms : Contains(CandText(sources, c), t)})
        + (IF c[3] = 0
           THEN 2 * Cardinality({t \in SearchTerms : Contains(Lower(r.name), t)})
           ELSE 3 * Cardinality({t \in SearchTerms :
                                    t \in {Lower(r.name), Lower(r.pythonic_name)}}))

CandItem(sources, c) ==
    SearchItem(CandScore(sources, c), sources[c[1]], CandEntity(sources, c).name,
               CandRecord(sources, c).name, IF c[3] = 0 THEN "method" ELSE "property")

\* source-enumeration order
EnumeratedBefore(a, b) ==
    \E k \in 1..4 : a[k] < b[k] /\ \A j \in 1..(k - 1) : a[j] = b[j]

\* a goes before b in the ranking
RankedBefore(sources, a, b) ==
    \/ CandScore(sources, a) > CandScore(sources, b)
    \/ CandScore(sources, a) = CandScore(sources, b) /\ EnumeratedBefore(a, b)

Matching(sources) == {c \in CandidatesOf(sources) : CandMatches(sources, c)}

RankOf(sources, c) ==
    1 + Cardinality({d \in Matching(sources) : RankedBefore(sources, d, c)})

Min(a, b) == IF a < b THEN a ELSE b

\* what the vector path returns for the request: of the first 3 * max_results
\* hits those of the source filter, cut to max_results
VectorResult ==
    LET sem == api_index.semantic_search
        filter == IF request.api_mode \in {"flexlibs2", "liblcm"}
                  THEN request.api_mode ELSE "all"
        read == SubSeq(sem.hits, 1, Min(Len(sem.hits), 3 * request.max_results))
        passing == SelectSeq(read, LAMBDA h : filter = "all" \/ h.source = filter)
    IN  IF request.semantic /\ sem.enabled
        THEN SubSeq(passing, 1, Min(Len(passing), request.max_results))
        ELSE <<>>

\* C17: when the vector path is in use and returns an item, the response is
\* its result, named semantic, and the keyword search does not run; else
\* the response is the result of the keyword search, named keyword.
C17_VectorFirstThenLexical ==
    SearchAnswered =>
        /\ VectorResult # <<>> =>
            /\ response.results = VectorResult
            /\ response.search_method = "semantic"
            /\ ~response.lexical
        /\ VectorResult = <<>> =>
            /\ response.search_method = "keyword"
            /\ response.lexical
            /\ response.results = KeywordSearch(api_index, request).results

\* the vector path answers although the keyword search has matches too
C17_Witness ==
    /\ SearchAnswered
    /\ response.search_method = "semantic"
    /\ Len(response.results) >= 1
    /\ KeywordSearch(api_index, request).results # <<>>
    /\ KeywordSearch(api_index, request).results # response.results

\* C18: the keyword result is the first max_results of the matching
\* candidates, by descending score and, among equal scores, in enumeration
\* order; it holds no item that scored only its boost.
C18_LexicalRanking ==
    (SearchAnswered /\ response.lexical) =>
        LET sources == CandidateSources
        IN  /\ Len(response.results)
                    = Min(request.max_results, Cardinality(Matching(sources)))
            /\ \A c \in Matching(sources) :
                    RankOf(sources, c) <= request.max_results
                    => response.results[RankOf(sources, c)] = CandItem(sources, c)
            /\ \A i \in 1..Len(response.results) :
                    response.results[i].score > SourceBoost(response.results[i].source)

\* more matching candidates than max_results, two of them from different
\* corpora with equal scores, the first of which is returned, and a
\* candidate that matched no term
C18_Witness ==
    /\ SearchAnswered /\ response.lexical
    /\ Cardinality(Matching(CandidateSources)) > request.max_results
    /\ \E a, b \in Matching(CandidateSources) :
        /\ a[1] < b[1]
        /\ CandScore(CandidateSources, a) = CandScore(CandidateSources, b)
        /\ RankOf(CandidateSources, a) = request.max_results
    /\ CandidatesOf(CandidateSources) # Matching(CandidateSources)

\* the matching items of the primary corpora
PrimaryMatching == Matching(LoadedPrimary)

\* the matching items of the fallback corpus
FallbackMatching == Matching(<<"liblcm">>)

\* C20: the fallback corpus is consulted only if the primary corpora gave
\* fewer than max_results matching items; fallback_used is reported exactly
\* when it was consulted and gave a matching item, and then an item of the
\* fallback corpus is in the result.
C20_FallbackOnlyWhenUnderfilled ==
    (SearchAnswered /\ response.lexical) =>
        /\ response.consulted =>
            /\ mode_config(request.api_mode).fallback # <<>>
            /\ Cardinality(PrimaryMatching) < request.max_results
        /\ response.fallback_used <=> (response.consulted /\ FallbackMatching # {})
        /\ response.fallback_used =>
            \E i \in 1..Len(response.results) : response.results[i].source = "liblcm"

\* the primary corpus gave an item, fewer than asked for, and the fallback
\* corpus gave items of which one is left out of the result
C20_Witness ==
    /\ SearchAnswered /\ response.lexical
    /\ response.fallback_used
    /\ Cardinality(PrimaryMatching) >= 1
    /\ Cardinality(PrimaryMatching) + Cardinality(FallbackMatching) > request.max_results
    /\ response.results[1].source = "flexlibs_stable"

\* ------------------------------------------------------------------------
\* Claims on scoring (MonoSpec)
\* ------------------------------------------------------------------------
AllSources == <<"flexlibs2", "flexlibs_stable", "liblcm">>

LoadedSources == SelectSeq(AllSources, LAMBDA src : SourceDoc(api_index, src).loaded)

\* the item of candidate c, whatever its score
SameItem(item, c) ==
    /\ item.source = LoadedSources[c[1]]
    /\ item.entity = CandEntity(LoadedSources, c).name
    /\ item.name = CandRecord(LoadedSources, c).name
    /\ item.type = (IF c[3] = 0 THEN "method" ELSE "property")

\* the scores that a result list gives candidate c
ScoresIn(results, c) ==
    {results[i].score : i \in {j \in 1..Len(results) : SameItem(results[j], c)}}

QueryWords == LET w == Split(Lower(request.query)) IN {w[i] : i \in 1..Len(w)}

\* the candidate's text holds every word of the query and the extra term
MatchesAll(c) ==
    \A t \in QueryWords \cup {request.extra} : Contains(CandText(LoadedSources, c), t)

BothAnswered == response.first # NoResponse /\ response.second # NoResponse

\* C19: an item that matches every term of the query and the extra term,
\* and that the search for the query scored, is scored by the search for the
\* longer query, and not lower.
C19_ScoreMonotonic ==
    BothAnswered =>
        \A c \in CandidatesOf(LoadedSources) :
            MatchesAll(c) =>
                \A s1 \in ScoresIn(response.first.results, c) :
                    /\ ScoresIn(response.second.results, c) # {}
                    /\ \A s2 \in ScoresIn(response.second.results, c) : s2 >= s1

\* the extra term and its synonyms raise the score of an item that matches
C19_Witness ==
    /\ BothAnswered
    /\ request.extra \notin QueryWords
    /\ synonyms(request.extra) # {}
    /\ \E c \in CandidatesOf(LoadedSources) :
        /\ MatchesAll(c)
        /\ \E s1 \in ScoresIn(response.first.results, c) :
            \E s2 \in ScoresIn(response.second.results, c) : s2 > s1

\* ------------------------------------------------------------------------
\* Claims on missing documents (IndexSpec)
\* ------------------------------------------------------------------------
IndexAnswered == response # NoResponse

\* the corpus that a returned item names is loaded
ResultSourcesLoaded ==
    \A i \in 1..Len(response.results) :
        SourceDoc(api_index, response.results[i].source).loaded

\* no query raises, and a navigation query without a graph is answered
\* found = false, "not loaded"
DegradesWithoutRaising ==
    /\ response.raised = FALSE
    /\ (response.tool = "get_navigation_path" /\ ~api_index.navigation_graph.loaded)
        => (response.result.found = FALSE /\ response.result.message = "not loaded")
    /\ response.tool = "search_by_capability"
        => response.results_count = Len(response.results)
    /\ response.tool \in {"get_object_api", "resolve_property"}
        => response.found \in BOOLEAN

\* C16 as stated: whatever documents are missing, every navigation, search,
\* object-API and property-resolution query returns a structured result
\* without raising, a navigation query without a graph returns found =
\* false with a "not loaded" message, and a search returns results only
\* from the corpora that are loaded.
C16_MissingDocumentsDegrade ==
    IndexAnswered =>
        /\ DegradesWithoutRaising
        /\ response.tool = "search_by_capability" => ResultSourcesLoaded

\* C16 amended: as above, but only a search answered by the keyword path is
\* limited to the loaded corpora; a search answered by the vector path
\* returns items of the vector index, whatever corpora are loaded.
C16_KeywordResultsFromLoadedCorpora ==
    IndexAnswered =>
        /\ DegradesWithoutRaising
        /\ (response.tool = "search_by_capability" /\ response.search_method = "keyword")
            => ResultSourcesLoaded
        /\ (response.tool = "search_by_capability" /\ response.search_method = "semantic")
            => \A i \in 1..Len(response.results) :
                    InSeq(api_index.semantic_search.hits, response.results[i])

\* a keyword search over all sources, with the first corpus and the
\* navigation graph missing, that returns items
C16_Witness ==
    /\ IndexAnswered
    /\ response.tool = "search_by_capability"
    /\ response.search_method = "keyword"
    /\ request.api_mode = "all"
    /\ ~api_index.flexlibs2.loaded
    /\ ~api_index.navigation_graph.loaded
    /\ response.results # <<>>

\* ------------------------------------------------------------------------
\* liblcm_extractor: the kind and alias of a property, the suffix index
\* ------------------------------------------------------------------------
\* total number of properties of an enumerated document
MaxSuffixProps == 2

\* the suffixes in the order determine_property_kind tests them
KindSuffixes ==
    <<<<"O", "S">>, <<"O", "C">>, <<"R", "S">>, <<"R", "C">>, <<"O", "A">>, <<"R", "A">>>>

\* determine_property_kind, from suffix i on
RECURSIVE determine_property_kind(_, _)
determine_property_kind(prop_name, i) ==
    IF i > Len(KindSuffixes) THEN <<>>
    ELSE IF EndsWith(prop_name, KindSuffixes[i]) THEN KindSuffixes[i]
    ELSE determine_property_kind(prop_name, i + 1)

\* "property": the kind of a property without a suffix
PlainKind == <<"p", "r", "o", "p", "e", "r", "t", "y">>

\* extract_property: name, pythonic_name (name[:-2] for the six kinds), kind
extract_property(name) ==
    LET kind == determine_property_kind(name, 1)
    IN  Property(name,
                 IF kind # <<>>
                 THEN SubSeq(name, 1, IF Len(name) >= 2 THEN Len(name) - 2 ELSE 0)
                 ELSE name,
                 <<>>,
                 IF kind # <<>> THEN kind ELSE PlainKind)

\* the letters in the order of their code points
Letters ==
    <<"A", "B", "C", "D", "E", "F", "G", "H", "I", "J", "K", "L", "M", "N", "O", "P", "Q",
      "R", "S", "T", "U", "V", "W", "X", "Y", "Z">>

CodePoint(c) == CHOOSE i \in 1..Len(Letters) : Letters[i] = c

\* a < b for Python strings of capital letters
RECURSIVE StrLess(_, _)
StrLess(x, y) ==
    IF y = <<>> THEN FALSE
    ELSE IF x = <<>> THEN TRUE
    ELSE IF Head(x) = Head(y) THEN StrLess(Tail(x), Tail(y))
    ELSE CodePoint(Head(x)) < CodePoint(Head(y))

\* list.sort(key=lambda x: x["entity"]): m goes behind every element whose
\* entity is not greater
RECURSIVE InsertByEntity(_, _)
InsertByEntity(sorted, m) ==
    IF sorted = <<>> THEN <<m>>
    ELSE IF StrLess(m.entity, Head(sorted).entity) THEN <<m>> \o sorted
    ELSE <<Head(sorted)>> \o InsertByEntity(Tail(sorted), m)

RECURSIVE SortByEntity(_)
SortByEntity(list) ==
    IF list = <<>> THEN <<>>
    ELSE InsertByEntity(SortByEntity(SubSeq(list, 1, Len(list) - 1)), list[Len(list)])

\* the body of the loop over the properties of an entity
IndexProperty(idx, entity_id, prop) ==
    IF prop.kind \in {KindSuffixes[i] : i \in 1..Len(KindSuffixes)}
       /\ prop.pythonic_name # prop.name
    THEN [by_pythonic_name |->
            AppendAt(idx.by_pythonic_name, prop.pythonic_name,
                     [entity |-> entity_id, full_name |-> prop.name, kind |-> prop.kind]),
          by_full_name |->
            Put(idx.by_full_name, entity_id \o <<".">> \o prop.name,
                [entity |-> entity_id, pythonic_name |-> prop.pythonic_name,
                 kind |-> prop.kind])]
    ELSE idx

\* the properties of entity e from property i on, then the entities behind
RECURSIVE IndexFrom(_, _, _, _)
IndexFrom(idx, entities, e, i) ==
    IF e > Len(entities) THEN idx
    ELSE IF i > Len(entities[e].properties) THEN IndexFrom(idx, entities, e + 1, 1)
    ELSE IndexFrom(IndexProperty(idx, entities[e].name, entities[e].properties[i]),
                   entities, e, i + 1)

\* the suffix index that build_api_documentation puts into the document
build_suffix_index(entities) ==
    LET idx == IndexFrom([by_pythonic_name |-> EmptyDict, by_full_name |-> EmptyDict],
                         entities, 1, 1)
    IN  [by_pythonic_name |->
            [keys |-> idx.by_pythonic_name.keys,
             at |-> [k \in DOMAIN idx.by_pythonic_name.at |->
                        SortByEntity(idx.by_pythonic_name.at[k])]],
         by_full_name |-> idx.by_full_name]

\* property names: AOS and ARC share the alias A, AOSOS has the alias AOS,
\* BRA the alias B, and B has no suffix
SuffixNames ==
    {<<"A", "O", "S">>, <<"A", "R", "C">>, <<"A", "O", "S", "O", "S">>,
     <<"B", "R", "A">>, <<"B">>}

SuffixProperties == {extract_property(n) : n \in SuffixNames}

\* no property is listed twice for an entity
Distinct(list) == \A i, j \in 1..Len(list) : list[i] = list[j] => i = j

\* the entity lists with the entities IA and K, in either order, or IA
\* alone, and up to n properties
SuffixEntities(n) ==
    {<<Entity(IA, <<>>, x)>> :
        x \in {q \in UNION {[1..a -> SuffixProperties] : a \in 0..n} : Distinct(q)}}
    \cup UNION {{<<Entity(o[1], <<>>, x), Entity(o[2], <<>>, y)>> :
                    x \in {q \in [1..t[1] -> SuffixProperties] : Distinct(q)},
                    y \in {q \in [1..t[2] -> SuffixProperties] : Distinct(q)},
                    o \in {<<IA, K>>, <<K, IA>>}} :
                t \in {u \in (0..n) \X (0..n) : u[1] + u[2] <= n}}

\* the index of a server that loaded the document alone
SuffixIndexOf(entities) ==
    [liblcm |-> [Doc(entities) EXCEPT !.suffix_index = build_suffix_index(entities)],
     flexlibs2 |-> NoDoc, flexlibs_stable |-> NoDoc, navigation_graph |-> NotLoaded,
     semantic_search |-> [enabled |-> FALSE, hits |-> <<>>]]

\* the properties that the index holds: entity, full name, alias, kind
IndexedProperties(index) ==
    LET by_pythonic == index.liblcm.suffix_index.by_pythonic_name
    IN  UNION {{[entity |-> by_pythonic.at[p][i].entity,
                 full_name |-> by_pythonic.at[p][i].full_name,
                 pythonic_name |-> p, kind |-> by_pythonic.at[p][i].kind] :
                    i \in 1..Len(by_pythonic.at[p])} : p \in DOMAIN by_pythonic.at}

\* the call for the alias of an indexed property, and the call for a full
\* name that the first call returned
ResolveCall(stage, name, context_entity, alias) ==
    [tool |-> "resolve_pythonic_property", stage |-> stage, name |-> name,
     context_entity |-> context_entity, alias |-> alias]

Resolved(stage, results) ==
    [tool |-> "resolve_pythonic_property", stage |-> stage, results |-> results]

SuffixInit ==
    /\ PatInit /\ PathIdle /\ NavIdle
    /\ exec = NoExec
    /\ api_index \in {SuffixIndexOf(d) : d \in SuffixEntities(MaxSuffixProps)}
    /\ request = NoRequest
    /\ response = NoResponse

SuffixUnchanged == UNCHANGED <<api_index, exec, graph, pathVars, navVars, patVars>>

\* resolve_pythonic_property(P, E) for an indexed property of E with alias P
ResolveAlias ==
    /\ request = NoRequest
    /\ \E prop \in IndexedProperties(api_index) :
        /\ request' = ResolveCall("alias", prop.pythonic_name, prop.entity,
                                  prop.pythonic_name)
        /\ response' = Resolved("alias",
                resolve_pythonic_property(api_index, prop.pythonic_name, prop.entity))
    /\ SuffixUnchanged

\* resolve_pythonic_property(N, E) for a full name N that the call returned
ResolveFullName ==
    /\ request # NoRequest
    /\ request.stage = "alias"
    /\ \E i \in 1..Len(response.results) :
        /\ request' = ResolveCall("full", response.results[i].full_name,
                                  request.context_entity, request.alias)
        /\ response' = Resolved("full",
                resolve_pythonic_property(api_index, response.results[i].full_name,
                                          request.context_entity))
    /\ SuffixUnchanged

SuffixNext == ResolveAlias \/ ResolveFullName

SuffixSpec == SuffixInit /\ [][SuffixNext]_vars

\* ------------------------------------------------------------------------
\* Claims on the choice of edges and the length of paths (PathSpec)
\* ------------------------------------------------------------------------
\* the position of the first edge to target in the edge list
FirstEdgeTo(edges, target) ==
    CHOOSE i \in 1..Len(edges) :
        /\ edges[i][1] = target
        /\ \A j \in 1..(i - 1) : edges[j][1] # target

\* the step uses the first edge of its source that leads to its target
UsesFirstEdge(g, st) ==
    LET edges == GraphGet(g, st.from)
    IN  /\ \E i \in 1..Len(edges) : edges[i][1] = st.to
        /\ st = Step(st.from, edges[FirstEdgeTo(edges, st.to)])

\* the name that the search starts from
SearchStart == IF pathq.fn = "builder" THEN normalize(pathq.start) ELSE pathq.start

\* C24: every step (from u, to v, via p) of a returned path uses the edge
\* that comes first in u's edge list among u's edges with target v.
C24_FirstEdgeChosen ==
    (PathCalled /\ ~pathr.isNone) =>
        \A i \in 1..Len(pathr.steps) : UsesFirstEdge(graph, pathr.steps[i])

\* a returned step whose source has a second, different edge to the same
\* target
C24_Witness ==
    /\ PathCalled
    /\ ~pathr.isNone
    /\ \E i \in 1..Len(pathr.steps) :
        LET edges == GraphGet(graph, pathr.steps[i].from)
        IN  \E j \in 1..Len(edges) :
                /\ edges[j][1] = pathr.steps[i].to
                /\ edges[j][2] # pathr.steps[i].via

\* C27: a path returned for A # B is a shortest one: no walk from A to B
\* has fewer edges.
C27_ShortestPath ==
    (PathCalled /\ pathq.start # pathq.end /\ ~pathr.isNone) =>
        /\ Len(pathr.steps) >= 1
        /\ pathq.end \notin ReachWithin(graph, {SearchStart}, Len(pathr.steps) - 1)

\* a one-step answer although the first edge of A leads to an entity that
\* leads to B
C27_Witness ==
    /\ PathCalled
    /\ pathq.start # pathq.end
    /\ ~pathr.isNone
    /\ Len(pathr.steps) = 1
    /\ GraphGet(graph, SearchStart) # <<>>
    /\ GraphGet(graph, SearchStart)[1][1] \notin {pathq.start, pathq.end}
    /\ pathq.end \in Successors(graph, {GraphGet(graph, SearchStart)[1][1]})

\* ------------------------------------------------------------------------
\* Claims on the search loop (LoopSpec)
\* ------------------------------------------------------------------------
InLoop == response # NoResponse

\* what is left to do: the entities not yet enqueued count twice, the queue
\* entries once, the return once
LoopMeasure ==
    IF ~InLoop
    THEN 2 * Cardinality(Entities) + 3
    ELSE 2 * Cardinality(Entities \ response.visited) + Len(response.queue)
         + (IF response.returned THEN 0 ELSE 1)

\* no entity is on the list of enqueued entities twice
EnqueuedOnce ==
    InLoop =>
        \A i, j \in 1..Len(response.enqueued) :
            response.enqueued[i] = response.enqueued[j] => i = j

\* the search has returned by reaching the end or with an empty queue, and
\* returned what the function returns
ReturnedResult ==
    (InLoop /\ response.returned) =>
        /\ \/ (~response.result.isNone /\ pathq.start = pathq.end)
           \/ (~response.result.isNone
               /\ response.result.steps[Len(response.result.steps)].to = LoopEnd)
           \/ (response.result.isNone /\ response.queue = <<>>)
        /\ pathr = response.result
        /\ response.result =
               IF pathq.fn = "builder"
               THEN find_path(graph, pathq.start, pathq.end, pathq.max_depth)
               ELSE find_path_bfs(graph, pathq.start, pathq.end, pathq.max_depth)

\* C25: on every graph (cycles, self-loops and multiple edges included)
\* every pass of the loop brings the search nearer to its end, a search that
\* has not returned can take a step, each entity is enqueued at most once,
\* and the search returns by reaching the end entity or by exhausting the
\* queue.
C25_SearchTerminates ==
    /\ [][LoopMeasure' < LoopMeasure]_vars
    /\ [](LoopMeasure >= 0)
    /\ []((InLoop /\ ~response.returned) => ENABLED LoopNext)
    /\ []EnqueuedOnce
    /\ []ReturnedResult

\* a search on a graph with a self-loop and a cycle through the start that
\* returned None after taking two or more entries
C25_Witness ==
    /\ InLoop
    /\ response.returned
    /\ response.result.isNone
    /\ response.taken >= 2
    /\ \E n \in Entities : n \in Successors(graph, {n})
    /\ LoopStart \in ReachWithin(graph, Successors(graph, {LoopStart}) \ {LoopStart}, 2)

\* ------------------------------------------------------------------------
\* Claims on a store loaded from any file (FileSpec)
\* ------------------------------------------------------------------------
HasBothMaps(patterns) ==
    /\ IsObject(patterns)
    /\ ~IsAbsent(patterns.api_patterns)
    /\ ~IsAbsent(patterns.error_patterns)

\* C30: whatever patterns.json holds at load (missing, unparsable, valid
\* JSON without one of the maps), the store has both maps, a record or
\* recommendations call that follows does not raise and run_operation
\* surfaces no unhandled fault because of the store.
C30_NoFaultFromLoadedStore ==
    response # NoResponse =>
        /\ response.raised = FALSE
        /\ HasBothMaps(tracker[1])

\* ------------------------------------------------------------------------
\* Claims on the examples of a bucket and on what a record call leaves
\* alone (LoggedSpec)
\* ------------------------------------------------------------------------
\* the failures recorded under the bucket key, in the order of the calls
FailuresUnder(key) ==
    SelectSeq(response.calls,
              LAMBDA c : ~c.success /\ c.error_msg # <<>>
                         /\ _normalize_error(c.error_msg) = key)

\* the example that record_operation keeps of a call
ExampleOf(c) ==
    [code |-> Prefix(c.code, 500), error |-> Prefix(c.error_msg, 500),
     timestamp |-> c.now]

\* C26: every error bucket holds min(count, 3) examples, count being the
\* number of failures recorded under its key, and the examples are those of
\* the first failures recorded under the key, in their order.
C26_FirstThreeExamples ==
    LET errors == tracker[1].error_patterns
    IN  \A key \in DOMAIN errors.at :
            LET bucket == errors.at[key]
                fails == FailuresUnder(key)
            IN  /\ bucket.count = Len(fails)
                /\ Len(bucket.examples) <= 3
                /\ Len(bucket.examples) = Min(bucket.count, 3)
                /\ \A i \in 1..Len(bucket.examples) :
                        bucket.examples[i] = ExampleOf(fails[i])

\* a bucket with four failures whose fourth message is not among the three
\* kept
C26_Witness ==
    LET errors == tracker[1].error_patterns
    IN  \E key \in DOMAIN errors.at :
            /\ errors.at[key].count = 4
            /\ Len(errors.at[key].examples) = 3
            /\ FailuresUnder(key)[4].error_msg \notin ExampleErrors(errors.at[key])

\* the arguments of the record call that led to the next state
LastCall == response'.calls[Len(response'.calls)]

\* what a key's entry says about failures (nothing for a key not yet there)
FailureStats(api, k) ==
    IF Has(api, k)
    THEN [failure_count |-> api.at[k].failure_count,
          common_errors |-> api.at[k].common_errors]
    ELSE [failure_count |-> 0, common_errors |-> EmptyDict]

\* C29: a record call with success = true leaves every failure counter,
\* every per-key error histogram and every error bucket as they were, also
\* when an error message is passed; any record call leaves the entry of
\* every pattern key that is not extracted from its code as it was, and
\* makes no entry for such a key.
C29_RecordFrame ==
    [][(response'.calls # response.calls) =>
        LET api == tracker[1].api_patterns
            api_after == tracker'[1].api_patterns
        IN  /\ LastCall.success =>
                /\ tracker'[1].error_patterns = tracker[1].error_patterns
                /\ \A k \in DOMAIN api_after.at :
                        FailureStats(api_after, k) = FailureStats(api, k)
            /\ \A k \in DOMAIN api_after.at :
                    k \notin KeysOf(LastCall.code) =>
                        (Has(api, k) /\ api_after.at[k] = api.at[k])
            /\ \A k \in DOMAIN api.at : Has(api_after, k)]_vars

\* the last call reported success with an error message passed, on a store
\* that holds a failure counter, a histogram, an error bucket and the entry
\* of a key that the call's code does not hold
C29_Witness ==
    LET last == response.calls[Len(response.calls)]
        api == tracker[1].api_patterns
    IN  /\ Len(response.calls) >= 2
        /\ last.success
        /\ last.error_msg # <<>>
        /\ tracker[1].error_patterns.keys # <<>>
        /\ \E k \in DOMAIN api.at :
                api.at[k].failure_count > 0 /\ api.at[k].common_errors.keys # <<>>
        /\ \E k \in DOMAIN api.at : k \notin KeysOf(last.code)

\* ------------------------------------------------------------------------
\* Claim on the sources of the items a search returns (SearchSpec)
\* ------------------------------------------------------------------------
\* the primary list and the fallback corpus of the request's mode
ModeSources ==
    LET config == mode_config(request.api_mode)
    IN  {config.primary[i] : i \in 1..Len(config.primary)}
        \cup {config.fallback[i] : i \in 1..Len(config.fallback)}

\* C28: for every api_mode, whichever of the vector path and the keyword
\* path gives the answer, the source of every returned item is in the
\* primary list of the mode or is its fallback corpus.
C28_SourcesWithinMode ==
    (response # NoResponse /\ ~response.raised) =>
        \A i \in 1..Len(response.results) : response.results[i].source \in ModeSources

\* ------------------------------------------------------------------------
\* Claims on the graph builder (BuilderSpec)
\* ------------------------------------------------------------------------
\* the property yields an edge: one of the six kinds and a target type
Emits(prop) == prop.relationship \in NonPlainKinds /\ prop.target_type # NoTarget

\* the edge of a property that yields one
EdgeOf(prop) ==
    <<prop.target_type, PropName(prop),
      IF prop.relationship \in {"owns_atomic", "owns_sequence", "owns_collection"}
      THEN "owns" ELSE "references">>

\* the inverse entry of an edge of source
InverseOf(source, edge) ==
    <<source, edge[2], IF edge[3] = "owns" THEN "owned_by" ELSE "referenced_by">>

\* how often x is in list
Occurrences(list, x) == Cardinality({i \in 1..Len(list) : list[i] = x})

\* the number of entries of all lists of the dict
RECURSIVE TotalEntries(_, _)
TotalEntries(d, i) ==
    IF i > Len(d.keys) THEN 0 ELSE Len(d.at[d.keys[i]]) + TotalEntries(d, i + 1)

Built == response # NoResponse

\* C22: the edges of every entity are those of its properties that have
\* one of the six kinds and a target type, one each, in the order of the
\* properties, and no other property yields one; the reverse index holds
\* the inverse entry of an edge as often as the graph holds the edge, and
\* nothing else.
C22_EdgesAndInverses ==
    Built =>
        LET res == response.result
            doc == request.entities
        IN  /\ \A i \in 1..Len(doc) :
                    LET emitting == SelectSeq(doc[i].properties, Emits)
                    IN  /\ Has(res.graph, doc[i].name) <=> emitting # <<>>
                        /\ Has(res.graph, doc[i].name) =>
                                res.graph.at[doc[i].name] =
                                    [j \in 1..Len(emitting) |-> EdgeOf(emitting[j])]
            /\ \A source \in DOMAIN res.graph.at : \E i \in 1..Len(doc) : doc[i].name = source
            /\ \A source \in DOMAIN res.graph.at :
                    \A j \in 1..Len(res.graph.at[source]) :
                        LET edge == res.graph.at[source][j]
                        IN  /\ Has(res.reverse_graph, edge[1])
                            /\ Occurrences(res.reverse_graph.at[edge[1]],
                                            InverseOf(source, edge))
                                    = Occurrences(res.graph.at[source], edge)
            /\ TotalEntries(res.reverse_graph, 1) = TotalEntries(res.graph, 1)

\* an entity with an owning and a referencing edge, in the order of its two
\* properties, whose inverse entries are under two targets
C22_Witness ==
    /\ Built
    /\ Has(response.result.graph, IA)
    /\ Len(response.result.graph.at[IA]) = 2
    /\ response.result.graph.at[IA][1][3] = "references"
    /\ response.result.graph.at[IA][2][3] = "owns"
    /\ response.result.graph.at[IA][1][1] # response.result.graph.at[IA][2][1]
    /\ Len(response.result.reverse_graph.keys) = 2

\* the document without the property records that have no name
WithoutNameless(doc) ==
    [i \in 1..Len(doc) |->
        BuilderEntity(doc[i].name,
                      SelectSeq(doc[i].properties, LAMBDA prop : prop.has_name))]

\* C23: a property record without a name yields no edge, no reverse entry
\* and no child or reference record, and the rest is processed as if the
\* record were not there.
C23_NamelessSkipped ==
    Built =>
        LET res == response.result
        IN  /\ \A e \in DOMAIN res.graph.at :
                    \A j \in 1..Len(res.graph.at[e]) : res.graph.at[e][j][2] # <<>>
            /\ \A e \in DOMAIN res.reverse_graph.at :
                    \A j \in 1..Len(res.reverse_graph.at[e]) :
                        res.reverse_graph.at[e][j][2] # <<>>
            /\ \A e \in DOMAIN res.entities.at :
                    /\ \A j \in 1..Len(res.entities.at[e].children) :
                            res.entities.at[e].children[j].via # <<>>
                    /\ \A j \in 1..Len(res.entities.at[e].references) :
                            res.entities.at[e].references[j].via # <<>>
            /\ res = extract_relationships(WithoutNameless(request.entities))

\* ------------------------------------------------------------------------
\* Claim on the round trip through the suffix index (SuffixSpec)
\* ------------------------------------------------------------------------
\* the entries of entity E with alias P that the document's properties give
AliasEntries(entities, E, P) ==
    UNION {{[entity |-> E, full_name |-> entities[e].properties[i].name,
             kind |-> determine_property_kind(entities[e].properties[i].name, 1)] :
                i \in {j \in 1..Len(entities[e].properties) :
                        /\ entities[e].properties[j].pythonic_name = P
                        /\ entities[e].properties[j].name # P}} :
           e \in {x \in 1..Len(entities) : entities[x].name = E}}

\* C21: resolving the alias P of an indexed property with its entity E
\* returns the full names of the properties of E whose alias is P, each
\* with the kind of that property; resolving a returned full name with E
\* returns one match, with that full name and the alias P.
C21_RoundTrip ==
    /\ (response # NoResponse /\ response.stage = "alias") =>
            /\ {response.results[i] : i \in 1..Len(response.results)}
                    = AliasEntries(api_index.liblcm.entities, request.context_entity,
                                   request.name)
            /\ Distinct(response.results)
    /\ (response # NoResponse /\ response.stage = "full") =>
            /\ Len(response.results) = 1
            /\ response.results[1].entity = request.context_entity
            /\ response.results[1].full_name = request.name
            /\ "pythonic_name" \in DOMAIN response.results[1]
            /\ response.results[1].pythonic_name = request.alias

====
